---- MODULE Spec2Model ----
(***************************************************************************)
(* Model of the Mrs. Salesforce conversation controller                    *)
(* (src/mrs-salesforce/app.py), its merge of extracted and manually        *)
(* entered fields, and the extraction gateway it calls                     *)
(* (src/src/agent.py, src/src/transcript_processor.py, src/src/utils.py,   *)
(* src/src/models.py).                                                     *)
(*                                                                         *)
(* Python values are tagged records: None, Str(<<chars>>), Num(n).  A text *)
(* is a sequence of one-character strings, so that emptiness, whitespace   *)
(* and number parsing are computed and not assumed.  An entity (a pydantic *)
(* model instance) is a record over the model's fields; a dict is a        *)
(* function whose domain is its key set.  A raised exception is the record *)
(* Raised(kind).                                                           *)
(*                                                                         *)
(* Fields of the pydantic models that no modelled statement reads or       *)
(* writes differently from `industry` (website, annual_revenue, segment,   *)
(* billing_city, billing_state, phone, probability, next_steps, ...) are   *)
(* left out of the entity records; message timestamps are left out of the  *)
(* message log.                                                            *)
(***************************************************************************)
EXTENDS Integers, Sequences, FiniteSets, TLC

VARIABLES
    conversation_stage,        \* st.session_state.conversation_stage
    messages,                  \* st.session_state.messages: sequence of [role, content]
    extracted_data,            \* st.session_state.extracted_data: None or a SalesCallData
    manual_inputs,             \* st.session_state.manual_inputs: category -> dict
    verified,                  \* st.session_state.verified: category -> BOOLEAN
    transcript_uploaded,       \* st.session_state.transcript_uploaded
    chat_collection_mode,      \* st.session_state.chat_collection_mode
    chat_data_extracted,       \* st.session_state.chat_data_extracted
    questions_asked,           \* st.session_state.questions_asked: sequence of question ids
    current_question_category, \* st.session_state.current_question_category
    last_assistant_message,    \* st.session_state.last_assistant_message
    pc,                        \* "run": a script run is pending (st.rerun()); "wait": the page waits for input
    widgets,                   \* the input widgets the last completed script run displayed
    call_data,                 \* the last script run's local call_data (result of merge_manual_inputs)
    create_result,             \* the submit handler's local create_result (line 901), None outside the handler
    conversation_state,        \* SlackBotHandler.conversation_state: user id -> dict, None for no entry
    handler,                   \* per Slack user, the position and locals of the handler running for the user
    sf_opportunity,            \* Salesforce: opportunity id -> the MEDDIC fields written to the opportunity
    tool_response              \* the last call of the update_meddic_fields tool and its response

vars == <<conversation_stage, messages, extracted_data, manual_inputs, verified,
          transcript_uploaded, chat_collection_mode, chat_data_extracted,
          questions_asked, current_question_category, last_assistant_message,
          pc, widgets, call_data, create_result,
          conversation_state, handler, sf_opportunity, tool_response>>

\* The state of the Slack bot and of the tools.
bot_vars == <<conversation_state, handler, sf_opportunity, tool_response>>

\* The state of the Streamlit application.
app_vars == <<conversation_stage, messages, extracted_data, manual_inputs, verified,
              transcript_uploaded, chat_collection_mode, chat_data_extracted,
              questions_asked, current_question_category, last_assistant_message,
              pc, widgets, call_data, create_result>>

-----------------------------------------------------------------------------
(* Python values *)

None == [none |-> TRUE]

Str(s) == [str |-> s]

Num(n) == [num |-> n]

Raised(kind) == [error |-> kind]

IsNone(v) == "none" \in DOMAIN v

IsStr(v) == "str" \in DOMAIN v

IsNum(v) == "num" \in DOMAIN v

IsError(v) == "error" \in DOMAIN v

\* Python truth value: None, "" and 0 are falsy; a model instance is truthy.
Truthy(v) ==
    IF IsNone(v) THEN FALSE
    ELSE IF IsStr(v) THEN v.str # <<>>
    ELSE IF IsNum(v) THEN v.num # 0
    ELSE TRUE

EmptyDict == [k \in {} |-> None]

\* dict.update / {**d, **e}
DictUpdate(d, e) == [k \in DOMAIN d \cup DOMAIN e |-> IF k \in DOMAIN e THEN e[k] ELSE d[k]]

\* {k: v for k, v in d.items() if v}
TruthyItems(d) == [k \in {x \in DOMAIN d : Truthy(d[x])} |-> d[k]]

\* any(d.values())
AnyTruthy(d) == \E k \in DOMAIN d : Truthy(d[k])

\* d.get(k, default)
DictGet(d, k, default) == IF k \in DOMAIN d THEN d[k] ELSE default

-----------------------------------------------------------------------------
(* Texts and number parsing *)

Digits == {"0", "1", "2", "3", "4", "5", "6", "7", "8", "9"}

DigitValue(c) ==
    CASE c = "0" -> 0 [] c = "1" -> 1 [] c = "2" -> 2 [] c = "3" -> 3 [] c = "4" -> 4
      [] c = "5" -> 5 [] c = "6" -> 6 [] c = "7" -> 7 [] c = "8" -> 8 [] c = "9" -> 9

RECURSIVE LStrip(_)
LStrip(s) == IF s # <<>> /\ Head(s) = " " THEN LStrip(Tail(s)) ELSE s

RECURSIVE RStrip(_)
RStrip(s) == IF s # <<>> /\ s[Len(s)] = " " THEN RStrip(SubSeq(s, 1, Len(s) - 1)) ELSE s

\* str.strip()
Strip(s) == RStrip(LStrip(s))

RECURSIVE DecimalValue(_)
DecimalValue(s) ==
    IF s = <<>> THEN 0
    ELSE 10 * DecimalValue(SubSeq(s, 1, Len(s) - 1)) + DigitValue(s[Len(s)])

\* float(v): a text parses when, stripped of surrounding blanks, it is a
\* non-empty run of digits (the texts of the model hold no sign, point or
\* exponent); float(None) raises TypeError, float of a text that does not
\* parse raises ValueError.
Float(v) ==
    IF IsNum(v) THEN v
    ELSE IF IsStr(v)
         THEN LET t == Strip(v.str)
              IN IF t # <<>> /\ \A i \in 1..Len(t) : t[i] \in Digits
                 THEN Num(DecimalValue(t))
                 ELSE Raised("ValueError")
         ELSE Raised("TypeError")

-----------------------------------------------------------------------------
(* Text literals of the source *)

Customer == <<"C", "u", "s", "t", "o", "m", "e", "r">>

CRMContact == <<"C", "R", "M", " ", "c", "o", "n", "t", "a", "c", "t">>

Identified == <<"I", "d", "e", "n", "t", "i", "f", "i", "e", "d">>

Pipeline == <<"P", "i", "p", "e", "l", "i", "n", "e">>

Call == <<"C", "a", "l", "l">>

USD == <<"U", "S", "D">>

EUR == <<"E", "U", "R">>

-----------------------------------------------------------------------------
(* The pydantic models (src/src/models.py) *)

Categories == {"account", "contact", "opportunity"}

\* Lax-mode validation of a text against a numeric annotation, `parsed`
\* being the number the text parses to or the exception.
ValidateNumber(parsed) == IF IsError(parsed) THEN Raised("ValidationError") ELSE parsed

\* Lax-mode validation of one field value against its annotation.
Validate(type, v) ==
    CASE type = "optstr" -> IF IsNone(v) \/ IsStr(v) THEN v ELSE Raised("ValidationError")
      [] type = "str" -> IF IsStr(v) THEN v ELSE Raised("ValidationError")
      [] type \in {"optfloat", "optint"} ->
            IF IsNone(v) \/ IsNum(v) THEN v
            ELSE IF IsStr(v) THEN ValidateNumber(Float(v))
            ELSE Raised("ValidationError")

\* Model(**d): declared fields take the given value (validated) or the
\* default; keys that are no field are ignored; one invalid field raises.
Construct(types, defaults, d) ==
    LET r == [f \in DOMAIN types |->
                 IF f \in DOMAIN d THEN Validate(types[f], d[f]) ELSE defaults[f]]
    IN IF \E f \in DOMAIN types : IsError(r[f]) THEN Raised("ValidationError") ELSE r

AccountTypes ==
    [name |-> "optstr", industry |-> "optstr", number_of_employees |-> "optint",
     billing_country |-> "optstr", currency |-> "optstr", region |-> "optstr",
     record_type |-> "str"]

AccountDefaults ==
    [name |-> None, industry |-> None, number_of_employees |-> None,
     billing_country |-> None, currency |-> None, region |-> None,
     record_type |-> Str(Customer)]

AccountData(d) == Construct(AccountTypes, AccountDefaults, d)

ContactTypes ==
    [first_name |-> "optstr", last_name |-> "optstr", email |-> "optstr",
     title |-> "optstr", record_type |-> "str", currency |-> "optstr"]

ContactDefaults ==
    [first_name |-> None, last_name |-> None, email |-> None,
     title |-> None, record_type |-> Str(CRMContact), currency |-> None]

ContactData(d) == Construct(ContactTypes, ContactDefaults, d)

OpportunityTypes ==
    [name |-> "optstr", stage |-> "str", forecast_category |-> "str",
     amount |-> "optfloat", close_date |-> "optstr", lead_source |-> "optstr",
     currency |-> "optstr"]

OpportunityDefaults ==
    [name |-> None, stage |-> Str(Identified), forecast_category |-> Str(Pipeline),
     amount |-> None, close_date |-> None, lead_source |-> Str(Call),
     currency |-> None]

OpportunityData(d) == Construct(OpportunityTypes, OpportunityDefaults, d)

SalesCallData(contact, account, opportunity) ==
    [contact |-> contact, account |-> account, opportunity |-> opportunity]

-----------------------------------------------------------------------------
(* merge_manual_inputs (src/mrs-salesforce/app.py) *)

\* A variant of deepcopy: the argument itself, so that assignments to the
\* result show in the argument.
same_object(x) == [obj |-> x, shared |-> TRUE]

\* deepcopy(x): a new object, not shared with the argument.
deepcopy(x) == [obj |-> x, shared |-> FALSE]

\* dict.copy(): a new dict, not shared with the argument.
dict_copy(d) == [obj |-> d, shared |-> FALSE]

\* The dict comprehension of lines 181 and 190: the manual items that are truthy.
manual_overrides(manual_cat) == TruthyItems(manual_cat)

\* Lines 179-185: the account of the result.
merge_account(account, manual_account) ==
    IF Truthy(account) /\ DOMAIN manual_account # {}
    THEN AccountData(DictUpdate(account, manual_overrides(manual_account)))
    ELSE IF DOMAIN manual_account # {} /\ AnyTruthy(manual_account)
    THEN AccountData(dict_copy(manual_account).obj)
    ELSE account

\* Lines 188-194: the contact of the result.
merge_contact(contact, manual_contact) ==
    IF Truthy(contact) /\ DOMAIN manual_contact # {}
    THEN ContactData(DictUpdate(contact, manual_overrides(manual_contact)))
    ELSE IF DOMAIN manual_contact # {} /\ AnyTruthy(manual_contact)
    THEN ContactData(dict_copy(manual_contact).obj)
    ELSE contact

\* Lines 199-203: opp_dict after the try block, `parsed` being float(amount)
\* or the exception it raised (which is passed over).
with_parsed_amount(opp_dict, parsed) ==
    IF IsError(parsed) THEN opp_dict ELSE [opp_dict EXCEPT !["amount"] = parsed]

\* Lines 198-206: an extracted opportunity exists.  A manual amount that
\* parses replaces the amount; one that does not is passed over.
merge_opportunity_existing(opportunity, manual_opp) ==
    LET opp_dict == opportunity
        with_amount ==
            IF "amount" \in DOMAIN manual_opp /\ Truthy(manual_opp["amount"])
            THEN with_parsed_amount(opp_dict, Float(manual_opp["amount"]))
            ELSE opp_dict
        others == [k \in {x \in DOMAIN manual_opp : Truthy(manual_opp[x]) /\ x # "amount"}
                      |-> manual_opp[k]]
    IN OpportunityData(DictUpdate(with_amount, others))

\* Lines 210-213: the amount after the try block, `parsed` being
\* float(amount) or the exception it raised.
parsed_or_none(parsed) == IF IsError(parsed) THEN None ELSE parsed

\* Lines 208-213: the dict handed to OpportunityData when the opportunity is
\* built from the manual inputs alone; a truthy amount is parsed, or set to
\* None when it does not parse.
synthesized_opp_dict(opp_dict) ==
    IF "amount" \in DOMAIN opp_dict /\ Truthy(opp_dict["amount"])
    THEN [opp_dict EXCEPT !["amount"] = parsed_or_none(Float(opp_dict["amount"]))]
    ELSE opp_dict

\* Lines 207-214: the opportunity built from the copy of the manual dict,
\* and the manual dict after it.
synthesize_opportunity(manual_opp, c, opp_dict) ==
    [value |-> OpportunityData(opp_dict),
     manual |-> IF c.shared THEN opp_dict ELSE manual_opp]

\* Lines 197-214: [value: the opportunity of the result (or the exception),
\* manual: the manual opportunity dict after the call].
merge_opportunity(opportunity, manual_opp) ==
    IF Truthy(opportunity) /\ DOMAIN manual_opp # {}
    THEN [value |-> merge_opportunity_existing(opportunity, manual_opp), manual |-> manual_opp]
    ELSE IF DOMAIN manual_opp # {} /\ AnyTruthy(manual_opp)
    THEN synthesize_opportunity(manual_opp, dict_copy(manual_opp),
                                synthesized_opp_dict(dict_copy(manual_opp).obj))
    ELSE [value |-> opportunity, manual |-> manual_opp]

\* What a call leaves behind, given the deep copy and the three merged
\* entities.  ret: the returned record or the exception raised; arg: the
\* argument object after the call; manual: manual_inputs after it.  An
\* exception leaves the assignments of the lines before it in the copy.
merge_outcome(data, manual, result, account, contact, opp) ==
    LET reached_contact == ~IsError(account)
        reached_opp == reached_contact /\ ~IsError(contact)
        assigned == [result.obj EXCEPT
                        !.account = IF reached_contact THEN account ELSE @,
                        !.contact = IF reached_opp THEN contact ELSE @,
                        !.opportunity = IF reached_opp /\ ~IsError(opp.value)
                                        THEN opp.value ELSE @]
    IN [ret |-> IF IsError(account) THEN account
                ELSE IF IsError(contact) THEN contact
                ELSE IF IsError(opp.value) THEN opp.value
                ELSE assigned,
        arg |-> IF result.shared THEN assigned ELSE data,
        manual |-> IF reached_opp THEN [manual EXCEPT !["opportunity"] = opp.manual]
                   ELSE manual]

\* Lines 174-216.  A call with None raises AttributeError at the first
\* attribute access.
merge_manual_inputs(data, manual) ==
    IF IsNone(data)
    THEN [ret |-> Raised("AttributeError"), arg |-> data, manual |-> manual]
    ELSE merge_outcome(data, manual, deepcopy(data),
                       merge_account(deepcopy(data).obj.account, manual["account"]),
                       merge_contact(deepcopy(data).obj.contact, manual["contact"]),
                       merge_opportunity(deepcopy(data).obj.opportunity,
                                         manual["opportunity"]))

\* get_missing_required_fields (lines 138-164), in the order the code appends.
RequiredFields(entity_type) ==
    CASE entity_type = "account" -> <<"name", "currency", "region">>
      [] entity_type = "contact" -> <<"last_name", "title", "email">>
      [] entity_type = "opportunity" -> <<"name", "amount", "close_date">>

get_missing_required_fields(entity_type, data) ==
    IF ~Truthy(data) THEN RequiredFields(entity_type)
    ELSE SelectSeq(RequiredFields(entity_type), LAMBDA f : ~Truthy(data[f]))

-----------------------------------------------------------------------------
(* Text helpers of the extraction gateway *)

LowerLetters == <<"a", "b", "c", "d", "e", "f", "g", "h", "i", "j", "k", "l", "m",
                  "n", "o", "p", "q", "r", "s", "t", "u", "v", "w", "x", "y", "z">>

UpperLetters == <<"A", "B", "C", "D", "E", "F", "G", "H", "I", "J", "K", "L", "M",
                  "N", "O", "P", "Q", "R", "S", "T", "U", "V", "W", "X", "Y", "Z">>

UpperChar(c) ==
    IF \E i \in 1..Len(LowerLetters) : LowerLetters[i] = c
    THEN UpperLetters[CHOOSE i \in 1..Len(LowerLetters) : LowerLetters[i] = c]
    ELSE c

\* str.upper()
Upper(s) == [i \in 1..Len(s) |-> UpperChar(s[i])]

LowerChar(c) ==
    IF \E i \in 1..Len(UpperLetters) : UpperLetters[i] = c
    THEN LowerLetters[CHOOSE i \in 1..Len(UpperLetters) : UpperLetters[i] = c]
    ELSE c

\* str.lower()
Lower(s) == [i \in 1..Len(s) |-> LowerChar(s[i])]

\* a in b, for texts
Contains(b, a) ==
    \E i \in 0..(Len(b) - Len(a)) : SubSeq(b, i + 1, i + Len(a)) = a

-----------------------------------------------------------------------------
(* src/src/utils.py *)

AUD == <<"A", "U", "D">>

\* CURRENCY_MAP in insertion order, cut to the entries the model's country
\* and region texts can meet.
CURRENCY_MAP ==
    << <<(<<"U", "S">>), USD>>,
       <<(<<"D", "E">>), EUR>>,
       <<(<<"G", "e", "r", "m", "a", "n", "y">>), EUR>>,
       <<(<<"A", "U">>), AUD>>,
       <<(<<"A", "u", "s", "t", "r", "a", "l", "i", "a">>), AUD>> >>

DEFAULT_CURRENCY == USD

RECURSIVE FirstPartialMatch(_, _)
\* The loop of lines 116-118 and 123-125 from entry i on: the currency of the
\* first key that contains, or is contained in, the upper-cased text; None
\* when the loop ends without a match.
FirstPartialMatch(text_upper, i) ==
    IF i > Len(CURRENCY_MAP) THEN None
    ELSE IF Contains(Upper(CURRENCY_MAP[i][1]), text_upper)
            \/ Contains(text_upper, Upper(CURRENCY_MAP[i][1]))
         THEN Str(CURRENCY_MAP[i][2])
         ELSE FirstPartialMatch(text_upper, i + 1)

currency_of_matches(exact, by_country, by_region) ==
    IF exact # {} THEN Str(CURRENCY_MAP[CHOOSE i \in exact : TRUE][2])
    ELSE IF ~IsNone(by_country) THEN by_country
    ELSE IF ~IsNone(by_region) THEN by_region
    ELSE Str(DEFAULT_CURRENCY)

detect_currency_from_location(country, region) ==
    IF ~Truthy(country) /\ ~Truthy(region) THEN Str(DEFAULT_CURRENCY)
    ELSE currency_of_matches(
            IF Truthy(country)
            THEN {i \in 1..Len(CURRENCY_MAP) : CURRENCY_MAP[i][1] = Upper(country.str)}
            ELSE {},
            IF Truthy(country) THEN FirstPartialMatch(Upper(country.str), 1) ELSE None,
            IF Truthy(region) THEN FirstPartialMatch(Upper(region.str), 1) ELSE None)

estimate_opportunity_amount(industry, company_size) ==
    IF Truthy(company_size)
    THEN IF company_size.num < 50 THEN Num(50000)
         ELSE IF company_size.num < 500 THEN Num(150000)
         ELSE IF company_size.num < 5000 THEN Num(500000)
         ELSE Num(1000000)
    ELSE None

format_opportunity_name(account_name, project_name) ==
    IF Truthy(project_name)
    THEN Str(account_name.str \o <<" ", "-", " ">> \o project_name.str)
    ELSE account_name

\* detect_lead_source: "partner-google" when the transcript mentions Google.
detect_lead_source(mentions_google) ==
    IF mentions_google
    THEN Str(<<"p", "a", "r", "t", "n", "e", "r", "-", "g", "o", "o", "g", "l", "e">>)
    ELSE Str(Call)

\* parse_quarter_to_date for the texts "Qn": the last day of quarter n of the
\* year of the clock (written 2025 here, as in the docstring).
parse_quarter_to_date(quarter_text) ==
    IF Len(quarter_text) >= 2 /\ UpperChar(quarter_text[1]) = "Q"
       /\ quarter_text[2] \in {"1", "2", "3", "4"}
    THEN LET q == DigitValue(quarter_text[2])
             md == CASE q = 1 -> <<"0", "3", "-", "3", "1">>
                     [] q = 2 -> <<"0", "6", "-", "3", "0">>
                     [] q = 3 -> <<"0", "9", "-", "3", "0">>
                     [] q = 4 -> <<"1", "2", "-", "3", "1">>
         IN Str(<<"2", "0", "2", "5", "-">> \o md)
    ELSE None

\* "%Y-%m-%d": ten characters, digits but for the two dashes.
IsIsoDate(t) ==
    /\ Len(t) = 10
    /\ \A i \in 1..10 : IF i \in {5, 8} THEN t[i] = "-" ELSE t[i] \in Digits

\* parse_close_date: quarter references, then the date formats (of which the
\* model's texts can only meet the first); None for any other text.
parse_close_date(date_text) ==
    IF ~Truthy(date_text) THEN None
    ELSE LET t == Strip(date_text.str)
         IN IF Contains(Upper(t), <<"Q">>) THEN parse_quarter_to_date(t)
            ELSE IF IsIsoDate(t) THEN Str(t)
            ELSE None

-----------------------------------------------------------------------------
(* src/src/transcript_processor.py and src/src/agent.py: the extraction        *)
(* gateway.  The language model's answer is an input: `data` is the JSON       *)
(* object of its response (a dict whose values are dicts or null), or the      *)
(* exception raised by the call or by json.loads.                              *)

\* bool(d) for a JSON value that is null or an object
JsonTruthy(v) == ~IsNone(v) /\ DOMAIN v # {}

\* The dict _parse_extraction_response returns (lines 216-220), or the
\* first exception raised on the way.
parsed_entities(contact, account, opportunity) ==
    IF IsError(contact) THEN contact
    ELSE IF IsError(account) THEN account
    ELSE IF IsError(opportunity) THEN opportunity
    ELSE [contact |-> contact, account |-> account, opportunity |-> opportunity]

\* The defaults of lines 207-212.
OpportunitySetDefaults ==
    [stage |-> Str(Identified), forecast_category |-> Str(Pipeline), lead_source |-> Str(Call)]

\* Lines 205-214: opp_data.setdefault on a null "opportunity" raises AttributeError.
parse_opportunity(opp_raw) ==
    IF IsNone(opp_raw) THEN Raised("AttributeError")
    ELSE OpportunityData(DictUpdate(OpportunitySetDefaults, opp_raw))

\* _parse_extraction_response, lines 164-220 (the MEDDIC sub-object is not modelled)
parse_extraction_response(data) ==
    parsed_entities(
        IF "contact" \in DOMAIN data /\ JsonTruthy(data["contact"])
        THEN ContactData(data["contact"]) ELSE None,
        IF "account" \in DOMAIN data /\ JsonTruthy(data["account"])
        THEN AccountData(data["account"]) ELSE None,
        parse_opportunity(DictGet(data, "opportunity", EmptyDict)))

\* Lines 265-290: the opportunity of an extraction that has an account.
post_process_opportunity(account, opp0, parsed_date, mentions_google) ==
    [opp0 EXCEPT
        !.name = IF Truthy(account.name) /\ Truthy(opp0.name)
                    /\ ~Contains(opp0.name.str, account.name.str)
                 THEN format_opportunity_name(account.name, opp0.name)
                 ELSE opp0.name,
        !.lead_source = detect_lead_source(mentions_google),
        !.close_date = IF Truthy(opp0.close_date) /\ Truthy(parsed_date)
                       THEN parsed_date ELSE opp0.close_date,
        !.currency = account.currency,
        !.amount = IF ~Truthy(opp0.amount)
                   THEN estimate_opportunity_amount(account.industry,
                                                    account.number_of_employees)
                   ELSE opp0.amount]

\* Lines 252-297, `currency` being the currency detected for the account.
post_process_entities(account0, contact0, opp0, currency, mentions_google) ==
    IF ~Truthy(account0)
    THEN [contact |-> contact0, account |-> account0, opportunity |-> opp0]
    ELSE [contact |-> IF Truthy(contact0) THEN [contact0 EXCEPT !.currency = currency]
                      ELSE contact0,
          account |-> [account0 EXCEPT !.currency = currency],
          opportunity |-> IF Truthy(opp0)
                          THEN post_process_opportunity(
                                  [account0 EXCEPT !.currency = currency], opp0,
                                  parse_close_date(opp0.close_date), mentions_google)
                          ELSE opp0]

\* _post_process_data, lines 245-299 (deal_summary is not modelled)
post_process_data(extracted, mentions_google) ==
    post_process_entities(extracted.account, extracted.contact, extracted.opportunity,
                          detect_currency_from_location(extracted.account.billing_country,
                                                        extracted.account.region),
                          mentions_google)

\* SalesCallData(contact=..., account=..., opportunity=...) of lines 59-65
SalesCallDataFrom(processed) ==
    SalesCallData(processed.contact, processed.account, processed.opportunity)

\* Lines 55-65: post-processing and the record, unless parsing raised.
extracted_record(parsed, mentions_google) ==
    IF IsError(parsed) THEN parsed
    ELSE SalesCallDataFrom(post_process_data(parsed, mentions_google))

\* TranscriptProcessor.extract_data, lines 26-69: a SalesCallData or the exception raised
extract_data(response) ==
    IF IsError(response.data) THEN response.data
    ELSE extracted_record(parse_extraction_response(response.data), response.mentions_google)

\* A variant of the call: a failure is swallowed and nothing is returned.
returns_none_on_failure(response) ==
    IF IsError(extract_data(response)) THEN None ELSE extract_data(response)

\* MrsSalesforceAgent.process_call_transcript(text, auto_create=False): the
\* "extracted_data" of its result, or the exception it lets through.
process_call_transcript(response) == extract_data(response)

-----------------------------------------------------------------------------
(* Inputs: the texts a user types and the answers of the language model *)

Empty == Str(<<>>)

Blank == Str(<<" ">>)

Acme == Str(<<"A", "c", "m", "e">>)

TextX == Str(<<"X">>)

\* The JSON objects the language model answers with.

\* an account with only a name, no contact, a full opportunity
NameOnlyAnswer ==
    [account |-> [name |-> Acme],
     opportunity |-> [name |-> Str(<<"A", "c", "m", "e", " ", "U", "p">>),
                      amount |-> Num(50000),
                      close_date |-> Str(<<"2", "0", "2", "5", "-", "0", "6", "-", "3", "0">>)]]

\* every required field, the amount left to the estimate, the date as a quarter
FullAnswer ==
    [account |-> [name |-> Acme, region |-> Str(<<"E", "U">>),
                  billing_country |-> Str(<<"d", "e">>), industry |-> Str(<<"I", "T">>),
                  number_of_employees |-> Num(40)],
     contact |-> [first_name |-> Str(<<"J", "o">>), last_name |-> Str(<<"S", "m", "i", "t", "h">>),
                  email |-> Str(<<"j", "@", "a">>), title |-> Str(<<"V", "P">>)],
     opportunity |-> [name |-> Str(<<"U", "p">>), amount |-> None,
                      close_date |-> Str(<<"Q", "2">>)]]

\* every entity, each with required fields missing
PartialAnswer ==
    [account |-> [region |-> Str(<<"E", "U">>), name |-> None],
     contact |-> [last_name |-> Str(<<"S", "m", "i", "t", "h">>)],
     opportunity |-> [name |-> Str(<<"U", "p">>), amount |-> None,
                      close_date |-> Str(<<"Q", "2">>)]]

\* What one extraction call can meet: an answer, with or without a mention of
\* Google in the transcript; an empty answer; an answer whose "opportunity" is
\* null; a failed call.
LLMResponses ==
    {[data |-> d, mentions_google |-> FALSE] : d \in {NameOnlyAnswer, FullAnswer, PartialAnswer}}
    \cup {[data |-> [account |-> [name |-> Acme]], mentions_google |-> TRUE],
          [data |-> EmptyDict, mentions_google |-> FALSE],
          [data |-> [opportunity |-> None], mentions_google |-> FALSE],
          [data |-> Raised("APIError"), mentions_google |-> FALSE]}

-----------------------------------------------------------------------------
(* src/mrs-salesforce/app.py: stages, messages, questions *)

STAGE_TRANSCRIPT == "transcript"

STAGE_CHAT_COLLECTION == "chat_collection"

STAGE_ACCOUNT == "account"

STAGE_ACCOUNT_VERIFY == "account_verify"

STAGE_CONTACT == "contact"

STAGE_CONTACT_VERIFY == "contact_verify"

STAGE_OPPORTUNITY == "opportunity"

STAGE_OPPORTUNITY_VERIFY == "opportunity_verify"

STAGE_FINAL_REVIEW == "final_review"

STAGE_COMPLETE == "complete"

\* The stages in the order of their declaration (and of the sidebar).
StageOrder ==
    <<STAGE_TRANSCRIPT, STAGE_CHAT_COLLECTION, STAGE_ACCOUNT, STAGE_ACCOUNT_VERIFY,
      STAGE_CONTACT, STAGE_CONTACT_VERIFY, STAGE_OPPORTUNITY, STAGE_OPPORTUNITY_VERIFY,
      STAGE_FINAL_REVIEW, STAGE_COMPLETE>>

EditStage(category) ==
    CASE category = "account" -> STAGE_ACCOUNT
      [] category = "contact" -> STAGE_CONTACT
      [] category = "opportunity" -> STAGE_OPPORTUNITY

VerifyStage(category) ==
    CASE category = "account" -> STAGE_ACCOUNT_VERIFY
      [] category = "contact" -> STAGE_CONTACT_VERIFY
      [] category = "opportunity" -> STAGE_OPPORTUNITY_VERIFY

\* A variant of the confirmations: the stage stays the verification stage.
ConfirmStays(category) == VerifyStage(category)

\* A variant of the confirmations: the account's leads past the contact.
SkipContact(category) ==
    CASE category = "account" -> STAGE_OPPORTUNITY
      [] category = "contact" -> STAGE_OPPORTUNITY
      [] category = "opportunity" -> STAGE_FINAL_REVIEW

\* The stage a confirmation leads to (lines 653, 726, 797).
StageAfterVerify(category) ==
    CASE category = "account" -> STAGE_CONTACT
      [] category = "contact" -> STAGE_OPPORTUNITY
      [] category = "opportunity" -> STAGE_FINAL_REVIEW

\* A category name held as a session value.
CategoryName(category) == [category_name |-> category]

\* A message; its content is the template of the text with the data put in it.
Msg(role, content) == [role |-> role, content |-> content]

\* add_message, lines 166-172
add_message(log, role, content) == Append(log, Msg(role, content))

\* content.startswith('**<Category> Information:**'): only the entity summary does
StartsWithInformation(category, m) ==
    m.content.kind = "information" /\ m.content.category = category

\* 'Missing' in content and '<category>' in content.lower(): only the prompt
\* for the category's missing fields holds both
HasMissing(category, m) ==
    m.content.kind = "missing" /\ m.content.category = category

\* 'chat' in content.lower() and 'information' in content.lower()
HasChatAndInformation(m) == m.content.kind \in {"welcome", "chat_request"}

\* "What's the name of the company" in content
HasCompanyQuestion(m) ==
    \/ m.content.kind = "chat_intro"
    \/ m.content.kind = "question" /\ m.content.question_id = "account_name"

\* st.session_state.messages[-3:]
LastThree(log) == SubSeq(log, IF Len(log) > 3 THEN Len(log) - 2 ELSE 1, Len(log))

AnyMessage(log, P(_)) == \E i \in 1..Len(log) : P(log[i])

\* f"{category}_{field}"
QuestionId(category, field) ==
    CASE category = "account" /\ field = "name" -> "account_name"
      [] category = "account" /\ field = "currency" -> "account_currency"
      [] category = "account" /\ field = "region" -> "account_region"
      [] category = "contact" /\ field = "last_name" -> "contact_last_name"
      [] category = "contact" /\ field = "email" -> "contact_email"
      [] category = "contact" /\ field = "title" -> "contact_title"
      [] category = "opportunity" /\ field = "name" -> "opportunity_name"
      [] category = "opportunity" /\ field = "amount" -> "opportunity_amount"
      [] category = "opportunity" /\ field = "close_date" -> "opportunity_close_date"

InSeq(x, q) == \E i \in 1..Len(q) : q[i] = x

\* get_missing_required_fields_from_data, lines 400-425: per category, in the
\* order the code appends (contact: last_name, email, title).
ChatRequiredFields(category) ==
    CASE category = "account" -> <<"name", "currency", "region">>
      [] category = "contact" -> <<"last_name", "email", "title">>
      [] category = "opportunity" -> <<"name", "amount", "close_date">>

get_missing_required_fields_from_data(data) ==
    [category \in Categories |->
        SelectSeq(ChatRequiredFields(category),
                  LAMBDA f : ~Truthy(data[category]) \/ ~Truthy(data[category][f]))]

CategoryPriority == <<"account", "contact", "opportunity">>

\* The candidate questions in the order of the loops of lines 454-459.
QuestionCandidates(missing) ==
    LET of(category) == [i \in 1..Len(missing[category]) |->
                            [category |-> category, field |-> missing[category][i]]]
    IN of(CategoryPriority[1]) \o of(CategoryPriority[2]) \o of(CategoryPriority[3])

\* A variant of get_next_question: the first missing field, asked or not.
first_missing_question(data, asked) ==
    IF QuestionCandidates(get_missing_required_fields_from_data(data)) # <<>>
    THEN Head(QuestionCandidates(get_missing_required_fields_from_data(data)))
    ELSE None

\* get_next_question, lines 427-461: [category, field] or None
get_next_question(data, asked) ==
    IF ~Truthy(data)
    THEN IF ~InSeq("account_name", asked)
         THEN [category |-> "account", field |-> "name"] ELSE None
    ELSE LET candidates == QuestionCandidates(get_missing_required_fields_from_data(data))
             open == SelectSeq(candidates, LAMBDA c : ~InSeq(QuestionId(c.category, c.field), asked))
         IN IF open # <<>> THEN Head(open) ELSE None

-----------------------------------------------------------------------------
(* Bounds of the model *)

\* The longest message log: an action that would make the log longer is not taken.
MaxMessages == 22

\* The most chat turns of one conversation.
MaxChatTurns == 2

\* The most saves of one category's form in one conversation.
MaxSaves == 2

CanAdd(n) == Len(messages) + n <= MaxMessages

Saves(category) == Cardinality({i \in 1..Len(messages) :
                                   /\ messages[i].content.kind = "saved"
                                   /\ messages[i].content.category = category})

UserTurns == Cardinality({i \in 1..Len(messages) :
                             messages[i].role = "user" /\ messages[i].content.kind = "answer"})

-----------------------------------------------------------------------------
(* The edit forms *)

\* The optional inputs of the forms (lines 619-626, 697-700); the model's
\* entities hold industry and billing_country of the account's four.
OptionalFormFields(category) ==
    CASE category = "account" -> {"industry", "billing_country"}
      [] category = "contact" -> {"first_name"}
      [] category = "opportunity" -> {}

\* The inputs whose initial value falls back to the entity's field.
EntityDefaulted(category) ==
    CASE category = "account" -> {"currency", "region", "industry", "billing_country"}
      [] category = "contact" -> {"first_name"}
      [] category = "opportunity" -> {}

\* value=st.session_state.manual_inputs[category].get(field, <fallback>)
FormDefault(category, field, entity, manual_cat) ==
    DictGet(manual_cat, field,
            IF field \in EntityDefaulted(category) /\ Truthy(entity) THEN entity[field]
            ELSE Empty)

SeqToSet(q) == {q[i] : i \in 1..Len(q)}

FormFields(category, missing_fields) ==
    SeqToSet(missing_fields) \cup OptionalFormFields(category)

\* The texts the user of the model types into an input (left alone, the input
\* returns its initial value; typing Empty clears it).
TypedTexts(category, field) ==
    CASE category = "account" /\ field = "region" -> {TextX, Blank}
      [] category = "account" /\ field = "industry" -> {TextX, Empty}
      [] category = "opportunity" /\ field = "amount" -> {Str(<<"5", "0">>), Str(<<"a">>)}
      [] field \in OptionalFormFields(category) -> {}
      [] OTHER -> {TextX}

\* The dicts a submitted form can hold (manual_account, manual_contact, manual_opportunity).
FormInputs(category, entity, manual_cat, missing_fields) ==
    LET fields == FormFields(category, missing_fields)
        choices(f) == {FormDefault(category, f, entity, manual_cat)} \cup TypedTexts(category, f)
    IN {d \in [fields -> UNION {choices(f) : f \in fields}] : \A f \in fields : d[f] \in choices(f)}

-----------------------------------------------------------------------------------------------------------------------------------------------------
(* The Slack bot and the tools: state *)

\* The Slack users of the model.
Users == {"U1", "U2"}

\* No handler runs for the user.
Idle == [pc |-> "idle"]

\* SlackBotHandler.__init__ (lines 16-25): no conversation; no message is
\* being handled, Salesforce holds no opportunity and no tool was called.
BotIdle ==
    /\ conversation_state = [user_id \in Users |-> None]
    /\ handler = [user_id \in Users |-> Idle]
    /\ sf_opportunity = EmptyDict
    /\ tool_response = None

-----
(* The session state *)

NoManualInputs == [category \in Categories |-> EmptyDict]

NoneVerified == [category \in Categories |-> FALSE]

\* Lines 96-135, and the state the reset buttons write (lines 297-307, 959-969).
InitialSessionState ==
    /\ conversation_stage = STAGE_TRANSCRIPT
    /\ messages = <<>>
    /\ extracted_data = None
    /\ manual_inputs = NoManualInputs
    /\ verified = NoneVerified
    /\ transcript_uploaded = FALSE
    /\ chat_collection_mode = FALSE
    /\ chat_data_extracted = FALSE
    /\ questions_asked = <<>>
    /\ current_question_category = None
    /\ last_assistant_message = None

Init ==
    /\ InitialSessionState
    /\ pc = "run"
    /\ widgets = {}
    /\ call_data = None
    /\ create_result = None
    /\ BotIdle

session_vars == <<conversation_stage, messages, extracted_data, manual_inputs, verified,
                  transcript_uploaded, chat_collection_mode, chat_data_extracted,
                  questions_asked, current_question_category, last_assistant_message>>

\* The script run ends and the page shows the given widgets.
ShowWidgets(w) ==
    pc' = "wait" /\ widgets' = w /\ create_result' = None /\ UNCHANGED bot_vars

\* st.rerun(): the script runs again at once.
Rerun == pc' = "run" /\ widgets' = {} /\ create_result' = None /\ UNCHANGED bot_vars

-----------------------------------------------------------------------------
(* Stage 1: transcript upload (lines 322-395) *)

\* A script run of the stage with no input: the welcome message, once.
RenderTranscript ==
    /\ pc = "run"
    /\ conversation_stage = STAGE_TRANSCRIPT
    /\ call_data' = None
    /\ IF ~transcript_uploaded /\ messages = <<>>
       THEN /\ CanAdd(1)
            /\ messages' = add_message(messages, "assistant", [kind |-> "welcome"])
            /\ Rerun
       ELSE /\ ShowWidgets(IF transcript_uploaded THEN {}
                           ELSE {"process_transcript", "provide_chat"})
            /\ UNCHANGED messages
    /\ UNCHANGED <<conversation_stage, extracted_data, manual_inputs, verified,
                   transcript_uploaded, chat_collection_mode, chat_data_extracted,
                   questions_asked, current_question_category, last_assistant_message>>

\* "Process Transcript" with a non-empty transcript (lines 362-382): a failed
\* extraction shows an error and changes nothing.
ProcessTranscript ==
    /\ pc = "wait"
    /\ conversation_stage = STAGE_TRANSCRIPT
    /\ "process_transcript" \in widgets
    /\ CanAdd(2)
    /\ \E response \in LLMResponses :
       \E result \in {process_call_transcript(response)} :
             IF IsError(result)
             THEN UNCHANGED vars
             ELSE /\ extracted_data' = result
                  /\ transcript_uploaded' = TRUE
                  /\ messages' = add_message(add_message(messages, "user",
                                                         [kind |-> "transcript_uploaded"]),
                                             "assistant", [kind |-> "processed"])
                  /\ conversation_stage' = STAGE_ACCOUNT
                  /\ Rerun
                  /\ call_data' = None
                  /\ UNCHANGED <<manual_inputs, verified, chat_collection_mode,
                                 chat_data_extracted, questions_asked,
                                 current_question_category, last_assistant_message>>

\* "Provide Info in Chat" (lines 385-395)
ProvideInfoInChat ==
    /\ pc = "wait"
    /\ conversation_stage = STAGE_TRANSCRIPT
    /\ "provide_chat" \in widgets
    /\ chat_collection_mode' = TRUE
    /\ conversation_stage' = STAGE_CHAT_COLLECTION
    /\ IF ~AnyMessage(messages, HasChatAndInformation)
       THEN /\ CanAdd(2)
            /\ messages' = add_message(add_message(messages, "user", [kind |-> "chat_request"]),
                                       "assistant", [kind |-> "chat_intro"])
            /\ questions_asked' = <<"account_name">>
            /\ current_question_category' = CategoryName("account")
       ELSE /\ questions_asked' = <<>>
            /\ current_question_category' = None
            /\ UNCHANGED messages
    /\ Rerun
    /\ call_data' = None
    /\ UNCHANGED <<extracted_data, manual_inputs, verified, transcript_uploaded,
                   chat_data_extracted, last_assistant_message>>

-----------------------------------------------------------------------------
(* Stage 1.5: chat collection (lines 398-578) *)

Question(question_id, ack) == [kind |-> "question", question_id |-> question_id, ack |-> ack]

\* A script run with no input: the initial question (lines 568-578).
RenderChatCollection ==
    /\ pc = "run"
    /\ conversation_stage = STAGE_CHAT_COLLECTION
    /\ call_data' = None
    /\ IF /\ ~AnyMessage(messages, LAMBDA m : m.role = "user")
          /\ ~InSeq("account_name", questions_asked)
          /\ ~AnyMessage(messages, HasCompanyQuestion)
       THEN /\ CanAdd(1)
            /\ messages' = add_message(messages, "assistant", Question("account_name", <<>>))
            /\ questions_asked' = Append(questions_asked, "account_name")
            /\ current_question_category' = CategoryName("account")
            /\ last_assistant_message' = Question("account_name", <<>>)
            /\ Rerun
       ELSE /\ ShowWidgets({"chat_input"})
            /\ UNCHANGED <<messages, questions_asked, current_question_category,
                           last_assistant_message>>
    /\ UNCHANGED <<conversation_stage, extracted_data, manual_inputs, verified,
                   transcript_uploaded, chat_collection_mode, chat_data_extracted>>

\* Lines 487-497: what the acknowledgment names.
AcknowledgmentParts(extracted, asked) ==
    LET once_or_never(q) == ~InSeq(q, asked) \/ Cardinality({i \in 1..Len(asked) : asked[i] = q}) = 1
        company == IF Truthy(extracted.account) /\ Truthy(extracted.account.name)
                      /\ once_or_never("account_name")
                   THEN <<"Company">> ELSE <<>>
        contact == IF Truthy(extracted.contact) /\ Truthy(extracted.contact.last_name)
                      /\ once_or_never("contact_last_name")
                   THEN <<"Contact">> ELSE <<>>
        opportunity == IF Truthy(extracted.opportunity) /\ Truthy(extracted.opportunity.name)
                          /\ once_or_never("opportunity_name")
                       THEN <<"Opportunity">> ELSE <<>>
    IN company \o contact \o opportunity

\* The session state after the extraction of a chat turn returned a record
\* (lines 482-529), given the acknowledgment parts and the next question.
ChatReply(log, parts, next_question) ==
    LET question_id == QuestionId(next_question.category, next_question.field)
        ask == Question(question_id, parts)
        done == [kind |-> "all_collected", ack |-> parts]
    IN IF ~IsNone(next_question)
       THEN IF ~InSeq(question_id, questions_asked)
            THEN [messages |-> add_message(log, "assistant", ask),
                  questions_asked |-> Append(questions_asked, question_id),
                  category |-> CategoryName(next_question.category),
                  last |-> ask, stage |-> STAGE_CHAT_COLLECTION]
            ELSE [messages |-> log, questions_asked |-> questions_asked,
                  category |-> current_question_category,
                  last |-> last_assistant_message, stage |-> STAGE_CHAT_COLLECTION]
       ELSE [messages |-> add_message(log, "assistant", done),
             questions_asked |-> questions_asked,
             category |-> current_question_category,
             last |-> done, stage |-> STAGE_ACCOUNT]

\* A variant of the turn: the collection is declared complete whatever is missing.
ChatAlwaysDone(log, extracted) ==
    ChatReply(log, AcknowledgmentParts(extracted, questions_asked), None)

ChatExtracted(log, extracted) ==
    ChatReply(log, AcknowledgmentParts(extracted, questions_asked),
              get_next_question(extracted, questions_asked))

\* A variant of the failed turn: the account's name is asked for again.
ChatFailedAsksAgain(log) ==
    [messages |-> add_message(log, "assistant", Question("account_name", <<>>)),
     questions_asked |-> Append(questions_asked, "account_name"),
     last |-> Question("account_name", <<>>)]

\* The session state after the extraction of a chat turn raised (lines 554-564).
ChatFailed(log) ==
    IF ~InSeq("account_name", questions_asked)
    THEN [messages |-> add_message(log, "assistant", Question("account_name", <<>>)),
          questions_asked |-> Append(questions_asked, "account_name"),
          last |-> Question("account_name", <<>>)]
    ELSE [messages |-> add_message(log, "assistant", [kind |-> "please_continue"]),
          questions_asked |-> questions_asked,
          last |-> [kind |-> "please_continue"]]

\* One answer typed into the chat input (lines 464-566).  The extraction
\* returns a SalesCallData or raises; it never returns a falsy value, so the
\* branch of lines 530-553 is not taken.
ChatTurn ==
    /\ pc = "wait"
    /\ conversation_stage = STAGE_CHAT_COLLECTION
    /\ "chat_input" \in widgets
    /\ UserTurns < MaxChatTurns
    /\ CanAdd(2)
    /\ \E response \in LLMResponses :
       \E extracted \in {process_call_transcript(response)} :
          IF IsError(extracted)
          THEN \E after \in {ChatFailed(add_message(messages, "user", [kind |-> "answer"]))} :
                  /\ messages' = after.messages
                  /\ questions_asked' = after.questions_asked
                  /\ last_assistant_message' = after.last
                  /\ UNCHANGED <<conversation_stage, extracted_data, chat_data_extracted,
                                 current_question_category>>
          ELSE \E after \in {ChatExtracted(add_message(messages, "user", [kind |-> "answer"]),
                                           extracted)} :
                  /\ extracted_data' = extracted
                  /\ chat_data_extracted' = TRUE
                  /\ messages' = after.messages
                  /\ questions_asked' = after.questions_asked
                  /\ current_question_category' = after.category
                  /\ last_assistant_message' = after.last
                  /\ conversation_stage' = after.stage
    /\ Rerun
    /\ call_data' = None
    /\ UNCHANGED <<manual_inputs, verified, transcript_uploaded, chat_collection_mode>>

-----------------------------------------------------------------------------
(* Stages 2, 4, 6: the edit stages (lines 581-637, 662-710, 735-781) *)

FormWidget(category) ==
    CASE category = "account" -> "account_input_form"
      [] category = "contact" -> "contact_input_form"
      [] category = "opportunity" -> "opportunity_input_form"

\* The entity of a merge result; an exception has none.
EntityOf(ret, category) == IF IsError(ret) THEN None ELSE ret[category]

\* A script run of an edit stage with no input: the entity summary (or the
\* notice that nothing was extracted), the prompt for the missing fields, the
\* form, or the advance to verification.
RenderEdit(category) ==
    /\ pc = "run"
    /\ conversation_stage = EditStage(category)
    /\ \E m \in {merge_manual_inputs(extracted_data, manual_inputs)} :
       LET entity == EntityOf(m.ret, category)
           missing_fields == get_missing_required_fields(category, entity)
       IN /\ call_data' = m.ret
          /\ extracted_data' = m.arg
          /\ manual_inputs' = m.manual
          /\ IF IsError(m.ret)
             THEN /\ ShowWidgets({})
                  /\ UNCHANGED <<conversation_stage, messages>>
             ELSE IF ~AnyMessage(messages, LAMBDA x : StartsWithInformation(category, x))
             THEN /\ CanAdd(1)
                  /\ messages' = add_message(messages, "assistant",
                        IF Truthy(entity)
                        THEN [kind |-> "information", category |-> category, entity |-> entity]
                        ELSE [kind |-> "could_not_extract", category |-> category])
                  /\ Rerun
                  /\ UNCHANGED conversation_stage
             ELSE IF missing_fields # <<>>
             THEN IF ~AnyMessage(LastThree(messages), LAMBDA x : HasMissing(category, x))
                  THEN /\ CanAdd(1)
                       /\ messages' = add_message(messages, "assistant",
                             [kind |-> "missing", category |-> category,
                              fields |-> missing_fields])
                       /\ Rerun
                       /\ UNCHANGED conversation_stage
                  ELSE /\ ShowWidgets({FormWidget(category)})
                       /\ UNCHANGED <<conversation_stage, messages>>
             ELSE IF ~verified[category]
             THEN /\ conversation_stage' = VerifyStage(category)
                  /\ Rerun
                  /\ UNCHANGED messages
             ELSE /\ ShowWidgets({})
                  /\ UNCHANGED <<conversation_stage, messages>>
    /\ UNCHANGED <<verified, transcript_uploaded, chat_collection_mode, chat_data_extracted,
                   questions_asked, current_question_category, last_assistant_message>>

\* Stage 2 runs only with extracted data (line 582).
RenderAccount ==
    IF Truthy(extracted_data)
    THEN RenderEdit("account")
    ELSE /\ pc = "run"
         /\ conversation_stage = STAGE_ACCOUNT
         /\ ShowWidgets({})
         /\ call_data' = None
         /\ UNCHANGED session_vars

RenderContact == RenderEdit("contact")

RenderOpportunity == RenderEdit("opportunity")

\* The form's submit button (lines 628-632, 702-706, 773-777).
SaveFields(category) ==
    /\ pc = "wait"
    /\ conversation_stage = EditStage(category)
    /\ FormWidget(category) \in widgets
    /\ CanAdd(1)
    /\ Saves(category) < MaxSaves
    /\ \E m \in {merge_manual_inputs(extracted_data, manual_inputs)} :
       LET entity == EntityOf(m.ret, category)
           missing_fields == get_missing_required_fields(category, entity)
       IN \E form \in FormInputs(category, entity, m.manual[category], missing_fields) :
             /\ manual_inputs' = [m.manual EXCEPT ![category] = DictUpdate(@, form)]
             /\ extracted_data' = m.arg
             /\ call_data' = m.ret
    /\ messages' = add_message(messages, "user", [kind |-> "saved", category |-> category])
    /\ conversation_stage' = VerifyStage(category)
    /\ Rerun
    /\ UNCHANGED <<verified, transcript_uploaded, chat_collection_mode, chat_data_extracted,
                   questions_asked, current_question_category, last_assistant_message>>

SaveAccountFields == SaveFields("account")

SaveContactFields == SaveFields("contact")

SaveOpportunityFields == SaveFields("opportunity")

-----------------------------------------------------------------------------
(* Stages 3, 5, 7: verification (lines 640-659, 713-732, 784-803) *)

ConfirmWidget(category) ==
    CASE category = "account" -> "account_looks_good"
      [] category = "contact" -> "contact_looks_good"
      [] category = "opportunity" -> "opportunity_looks_good"

EditWidget(category) ==
    CASE category = "account" -> "edit_account"
      [] category = "contact" -> "edit_contact"
      [] category = "opportunity" -> "edit_opportunity"

\* A script run of a verification stage with no input: the merged entity and
\* the two buttons; nothing when the merge raises.
RenderVerify(category) ==
    /\ pc = "run"
    /\ conversation_stage = VerifyStage(category)
    /\ \E m \in {merge_manual_inputs(extracted_data, manual_inputs)} :
          /\ call_data' = m.ret
          /\ extracted_data' = m.arg
          /\ manual_inputs' = m.manual
          /\ ShowWidgets(IF IsError(m.ret) THEN {}
                         ELSE {ConfirmWidget(category), EditWidget(category)})
    /\ UNCHANGED <<conversation_stage, messages, verified, transcript_uploaded,
                   chat_collection_mode, chat_data_extracted, questions_asked,
                   current_question_category, last_assistant_message>>

RenderAccountVerify == RenderVerify("account")

RenderContactVerify == RenderVerify("contact")

RenderOpportunityVerify == RenderVerify("opportunity")

\* A variant of the Edit buttons: each leads to the account stage.
EditToAccount(category) == STAGE_ACCOUNT

\* The stage an Edit button leads to (lines 658, 731, 802).
EditTarget(category) == EditStage(category)

\* A variant of the confirmations: one confirms every category.
AllConfirmed(category) == [c \in Categories |-> TRUE]

\* st.session_state.verified[<category>] = True (lines 650, 723, 794)
ConfirmedFlags(category) == [verified EXCEPT ![category] = TRUE]

\* "<Category> looks good" (lines 649-654, 722-727, 793-798)
Confirm(category) ==
    /\ pc = "wait"
    /\ conversation_stage = VerifyStage(category)
    /\ ConfirmWidget(category) \in widgets
    /\ CanAdd(2)
    /\ \E m \in {merge_manual_inputs(extracted_data, manual_inputs)} :
          /\ call_data' = m.ret
          /\ extracted_data' = m.arg
          /\ manual_inputs' = m.manual
    /\ verified' = ConfirmedFlags(category)
    /\ messages' = add_message(add_message(messages, "user",
                                           [kind |-> "verified", category |-> category]),
                               "assistant",
                               [kind |-> "move_on", next |-> StageAfterVerify(category)])
    /\ conversation_stage' = StageAfterVerify(category)
    /\ Rerun
    /\ UNCHANGED <<transcript_uploaded, chat_collection_mode, chat_data_extracted,
                   questions_asked, current_question_category, last_assistant_message>>

ConfirmAccount == Confirm("account")

ConfirmContact == Confirm("contact")

ConfirmOpportunity == Confirm("opportunity")

\* "Edit <Category>" (lines 656-659, 729-732, 800-803)
Edit(category) ==
    /\ pc = "wait"
    /\ conversation_stage = VerifyStage(category)
    /\ EditWidget(category) \in widgets
    /\ \E m \in {merge_manual_inputs(extracted_data, manual_inputs)} :
          /\ call_data' = m.ret
          /\ extracted_data' = m.arg
          /\ manual_inputs' = m.manual
    /\ conversation_stage' = EditTarget(category)
    /\ Rerun
    /\ UNCHANGED <<messages, verified, transcript_uploaded, chat_collection_mode,
                   chat_data_extracted, questions_asked, current_question_category,
                   last_assistant_message>>

EditAccount == Edit("account")

EditContact == Edit("contact")

EditOpportunity == Edit("opportunity")

-----------------------------------------------------------------------------
(* Stage 8: final review (lines 806-927) *)

\* A script run with no input: the preview and the two buttons.
RenderFinalReview ==
    /\ pc = "run"
    /\ conversation_stage = STAGE_FINAL_REVIEW
    /\ \E m \in {merge_manual_inputs(extracted_data, manual_inputs)} :
          /\ call_data' = m.ret
          /\ extracted_data' = m.arg
          /\ manual_inputs' = m.manual
          /\ ShowWidgets(IF IsError(m.ret) THEN {} ELSE {"create_records", "go_back_to_edit"})
    /\ UNCHANGED <<conversation_stage, messages, verified, transcript_uploaded,
                   chat_collection_mode, chat_data_extracted, questions_asked,
                   current_question_category, last_assistant_message>>

CreatedKey(category) ==
    CASE category = "account" -> "account_id"
      [] category = "contact" -> "contact_id"
      [] category = "opportunity" -> "opportunity_id"

\* The field without which the client issues no create (salesforce_client.py
\* lines 68, 128, 181).
NameField(category) == IF category = "contact" THEN "last_name" ELSE "name"

\* The client sends a create for the entity.
IsSent(data, category) == Truthy(data[category]) /\ Truthy(data[category][NameField(category)])

\* The client returns an id: the create was sent and Salesforce accepted it
\* (created[c] is Salesforce's answer to a create of the category).
ReturnsId(data, created, category) == IsSent(data, category) /\ created[category]

\* The ids create_opportunity writes into the record it sends
\* (salesforce_client.py lines 167-251): account_id when there is one;
\* contact_id is a parameter the method does not use.
opportunity_links(data, created) ==
    {f \in {"AccountId"} : ReturnsId(data, created, "account")}

\* The creates sent to Salesforce, in the order of agent.py lines 142-174.
create_calls(data, created) ==
    (IF IsSent(data, "account") THEN <<[sobject |-> "Account", links |-> {}]>> ELSE <<>>)
    \o (IF IsSent(data, "contact")
        THEN <<[sobject |-> "Contact",
                links |-> {f \in {"AccountId"} : ReturnsId(data, created, "account")}]>>
        ELSE <<>>)
    \o (IF IsSent(data, "opportunity")
        THEN <<[sobject |-> "Opportunity", links |-> opportunity_links(data, created)]>>
        ELSE <<>>)

\* A variant of create_records_from_data: a failed create is not recorded.
create_without_errors(data, salesforce_available, created) ==
    IF ~salesforce_available
    THEN [preview_mode |-> TRUE, created_records |-> {}, errors |-> <<>>, calls |-> <<>>]
    ELSE [preview_mode |-> FALSE,
          created_records |-> {CreatedKey(c) : c \in {c \in Categories :
                                                      ReturnsId(data, created, c)}},
          errors |-> <<>>,
          calls |-> create_calls(data, created)]

\* create_records_from_data (agent.py lines 109-176)
create_records_from_data(data, salesforce_available, created) ==
    IF ~salesforce_available
    THEN [preview_mode |-> TRUE, created_records |-> {}, errors |-> <<>>, calls |-> <<>>]
    ELSE [preview_mode |-> FALSE,
          created_records |-> {CreatedKey(c) : c \in {c \in Categories :
                                                      ReturnsId(data, created, c)}},
          errors |-> SelectSeq(CategoryPriority,
                               LAMBDA c : Truthy(data[c]) /\ ~ReturnsId(data, created, c)),
          calls |-> create_calls(data, created)]

\* A variant of ResultMessages: the preview is reported like a live creation
\* that created nothing.
ResultMessagesWithoutPreview(log, result) ==
    LET first == add_message(log, "assistant",
                    IF result.created_records # {}
                    THEN [kind |-> "success", records |-> result.created_records]
                    ELSE [kind |-> "no_records"])
    IN IF result.errors # <<>>
       THEN add_message(first, "assistant", [kind |-> "errors", errors |-> result.errors])
       ELSE first

\* The messages of lines 904-916.
ResultMessages(log, result) ==
    LET first == add_message(log, "assistant",
                    IF result.preview_mode THEN [kind |-> "preview_mode"]
                    ELSE IF result.created_records # {}
                    THEN [kind |-> "success", records |-> result.created_records]
                    ELSE [kind |-> "no_records"])
    IN IF result.errors # <<>>
       THEN add_message(first, "assistant",
                        [kind |-> "errors", errors |-> result.errors])
       ELSE first

\* A variant of SubmitTarget: the submission stays on the final review.
SubmitStays == STAGE_FINAL_REVIEW

\* The stage a submission leads to (line 918).
SubmitTarget == STAGE_COMPLETE

\* "Create Records in Salesforce" / "Preview Only" (lines 899-922)
CreateRecords ==
    /\ pc = "wait"
    /\ conversation_stage = STAGE_FINAL_REVIEW
    /\ "create_records" \in widgets
    /\ CanAdd(2)
    /\ \E m \in {merge_manual_inputs(extracted_data, manual_inputs)} :
          /\ call_data' = m.ret
          /\ extracted_data' = m.arg
          /\ manual_inputs' = m.manual
          /\ \E salesforce_available \in BOOLEAN, created \in [Categories -> BOOLEAN] :
                \E result \in {create_records_from_data(m.ret, salesforce_available, created)} :
                    /\ create_result' = result
                    /\ messages' = ResultMessages(messages, result)
    /\ conversation_stage' = SubmitTarget
    /\ pc' = "run" /\ widgets' = {}
    /\ UNCHANGED bot_vars
    /\ UNCHANGED <<verified, transcript_uploaded, chat_collection_mode, chat_data_extracted,
                   questions_asked, current_question_category, last_assistant_message>>

\* A variant of GoBackTarget: the button ends the conversation.
GoBackCompletes == STAGE_COMPLETE

\* The stage "Go Back to Edit" leads to (line 926).
GoBackTarget == STAGE_OPPORTUNITY_VERIFY

\* "Go Back to Edit" (lines 924-927)
GoBackToEdit ==
    /\ pc = "wait"
    /\ conversation_stage = STAGE_FINAL_REVIEW
    /\ "go_back_to_edit" \in widgets
    /\ \E m \in {merge_manual_inputs(extracted_data, manual_inputs)} :
          /\ call_data' = m.ret
          /\ extracted_data' = m.arg
          /\ manual_inputs' = m.manual
    /\ conversation_stage' = GoBackTarget
    /\ Rerun
    /\ UNCHANGED <<messages, verified, transcript_uploaded, chat_collection_mode,
                   chat_data_extracted, questions_asked, current_question_category,
                   last_assistant_message>>

-----------------------------------------------------------------------------
(* Stage 9: complete (lines 930-970), and the sidebar's reset (lines 293-308) *)

RenderComplete ==
    /\ pc = "run"
    /\ conversation_stage = STAGE_COMPLETE
    /\ IF Truthy(extracted_data)
       THEN \E m \in {merge_manual_inputs(extracted_data, manual_inputs)} :
               /\ call_data' = m.ret
               /\ extracted_data' = m.arg
               /\ manual_inputs' = m.manual
               /\ ShowWidgets(IF IsError(m.ret) THEN {} ELSE {"process_another"})
       ELSE /\ call_data' = None
            /\ ShowWidgets({"process_another"})
            /\ UNCHANGED <<extracted_data, manual_inputs>>
    /\ UNCHANGED <<conversation_stage, messages, verified, transcript_uploaded,
                   chat_collection_mode, chat_data_extracted, questions_asked,
                   current_question_category, last_assistant_message>>

\* A variant of the reset: manual_inputs survives it.
ResetKeepingManualInputs ==
    /\ conversation_stage' = STAGE_TRANSCRIPT
    /\ messages' = <<>>
    /\ extracted_data' = None
    /\ verified' = NoneVerified
    /\ transcript_uploaded' = FALSE
    /\ chat_collection_mode' = FALSE
    /\ chat_data_extracted' = FALSE
    /\ questions_asked' = <<>>
    /\ current_question_category' = None
    /\ last_assistant_message' = None
    /\ call_data' = None
    /\ Rerun
    /\ UNCHANGED manual_inputs

\* The assignments both reset buttons make.
ResetSession ==
    /\ conversation_stage' = STAGE_TRANSCRIPT
    /\ messages' = <<>>
    /\ extracted_data' = None
    /\ manual_inputs' = NoManualInputs
    /\ verified' = NoneVerified
    /\ transcript_uploaded' = FALSE
    /\ chat_collection_mode' = FALSE
    /\ chat_data_extracted' = FALSE
    /\ questions_asked' = <<>>
    /\ current_question_category' = None
    /\ last_assistant_message' = None
    /\ call_data' = None
    /\ Rerun

\* "Process Another Transcript" (lines 955-970)
ProcessAnotherTranscript ==
    /\ pc = "wait"
    /\ conversation_stage = STAGE_COMPLETE
    /\ "process_another" \in widgets
    /\ ResetSession

\* "Reset Conversation" in the sidebar (lines 293-308): on every page shown
\* after the session's first message.
ResetConversation ==
    /\ pc = "wait"
    /\ messages # <<>>
    /\ ResetSession

-----------------------------------------------------------------------------
(* The application *)

Next ==
    \/ RenderTranscript
    \/ ProcessTranscript
    \/ ProvideInfoInChat
    \/ RenderChatCollection
    \/ ChatTurn
    \/ RenderAccount
    \/ SaveAccountFields
    \/ RenderAccountVerify
    \/ ConfirmAccount
    \/ EditAccount
    \/ RenderContact
    \/ SaveContactFields
    \/ RenderContactVerify
    \/ ConfirmContact
    \/ EditContact
    \/ RenderOpportunity
    \/ SaveOpportunityFields
    \/ RenderOpportunityVerify
    \/ ConfirmOpportunity
    \/ EditOpportunity
    \/ RenderFinalReview
    \/ CreateRecords
    \/ GoBackToEdit
    \/ RenderComplete
    \/ ProcessAnotherTranscript
    \/ ResetConversation

Spec == Init /\ [][Next]_vars

-----------------------------------------------------------------------------
(* merge_manual_inputs as a function: every extracted record and manual     *)
(* input of the sets below is merged, merged again, and the snapshot is     *)
(* replaced by another extraction while manual_inputs stays.                *)

\* Entities of an extracted record; None is the absent entity.
MergeAccounts ==
    {None,
     AccountData([name |-> Acme]),
     AccountData([name |-> Acme, region |-> Str(<<"E", "U">>), currency |-> Str(EUR)])}

MergeContacts ==
    {None, ContactData([last_name |-> Str(<<"S", "m", "i", "t", "h">>)])}

MergeOpportunities ==
    {None,
     OpportunityData([name |-> Str(<<"U", "p">>), amount |-> Num(50000),
                      close_date |-> Str(<<"2", "0", "2", "5", "-", "0", "6", "-", "3", "0">>)]),
     OpportunityData([name |-> Str(<<"U", "p">>)])}

\* The extracted records: no record at all, or a SalesCallData.
MergeRecords ==
    {None} \cup {SalesCallData(c, a, o) :
                    c \in MergeContacts, a \in MergeAccounts, o \in MergeOpportunities}

\* What manual_inputs can hold for each category.
ManualAccounts ==
    {EmptyDict, [name |-> TextX], [name |-> Empty], [name |-> Empty, region |-> TextX]}

ManualContacts ==
    {EmptyDict, [last_name |-> TextX, title |-> Empty]}

ManualOpportunities ==
    {EmptyDict,
     [amount |-> Str(<<"5", "0">>)],
     [amount |-> Str(<<"a">>)],
     [name |-> TextX, amount |-> Str(<<" ", "7", " ">>)],
     [name |-> TextX, amount |-> Empty],
     [name |-> Empty, amount |-> Empty]}

ManualInputs ==
    {[account |-> a, contact |-> c, opportunity |-> o] :
        a \in ManualAccounts, c \in ManualContacts, o \in ManualOpportunities}

MergeInit ==
    /\ conversation_stage = STAGE_ACCOUNT
    /\ messages = <<>>
    /\ extracted_data \in MergeRecords
    /\ manual_inputs \in ManualInputs
    /\ verified = NoneVerified
    /\ transcript_uploaded = TRUE
    /\ chat_collection_mode = FALSE
    /\ chat_data_extracted = FALSE
    /\ questions_asked = <<>>
    /\ current_question_category = None
    /\ last_assistant_message = None
    /\ pc = "call"
    /\ widgets = {}
    /\ call_data = None
    /\ create_result = None
    /\ BotIdle

\* call_data = merge_manual_inputs(st.session_state.extracted_data), the
\* first call or a repeated one.
MergeCall ==
    /\ pc \in {"call", "returned"}
    /\ \E m \in {merge_manual_inputs(extracted_data, manual_inputs)} :
          /\ call_data' = m.ret
          /\ extracted_data' = m.arg
          /\ manual_inputs' = m.manual
    /\ pc' = "returned"
    /\ UNCHANGED <<conversation_stage, messages, verified, transcript_uploaded,
                   chat_collection_mode, chat_data_extracted, questions_asked,
                   current_question_category, last_assistant_message, widgets>>
    /\ UNCHANGED <<create_result, bot_vars>>

\* A later extraction replaces the snapshot; manual_inputs stays.
ReplaceSnapshot ==
    /\ pc = "returned"
    /\ \E extracted \in MergeRecords : extracted_data' = extracted
    /\ call_data' = None
    /\ pc' = "call"
    /\ UNCHANGED <<conversation_stage, messages, manual_inputs, verified,
                   transcript_uploaded, chat_collection_mode, chat_data_extracted,
                   questions_asked, current_question_category, last_assistant_message,
                   widgets>>
    /\ UNCHANGED <<create_result, bot_vars>>

MergeNext == MergeCall \/ ReplaceSnapshot

MergeSpec == MergeInit /\ [][MergeNext]_vars

-----------------------------------------------------------------------------
(* The chat's resolver as a function: get_next_question and the two         *)
(* missing-field checks are applied to records of the sets below, the       *)
(* question returned is asked, and another extraction replaces the record.  *)

ResolverAccounts ==
    {None,
     AccountData([name |-> Acme]),
     AccountData([name |-> Acme, currency |-> Str(USD), region |-> Blank]),
     AccountData([name |-> Acme, currency |-> Str(USD), region |-> TextX])}

ResolverContacts ==
    {None,
     ContactData([last_name |-> TextX]),
     ContactData([last_name |-> TextX, title |-> TextX]),
     ContactData([last_name |-> TextX, email |-> TextX, title |-> TextX])}

ResolverOpportunities ==
    {OpportunityData([name |-> TextX]),
     OpportunityData([name |-> Empty, amount |-> Num(50)]),
     OpportunityData([name |-> TextX, amount |-> Num(50), close_date |-> TextX])}

\* The records an extraction returns.
ResolverRecords ==
    {SalesCallData(c, a, o) :
        c \in ResolverContacts, a \in ResolverAccounts, o \in ResolverOpportunities}

\* The chat stage after its initial question.
ResolverInit ==
    /\ conversation_stage = STAGE_CHAT_COLLECTION
    /\ messages = <<>>
    /\ extracted_data \in ResolverRecords
    /\ manual_inputs = NoManualInputs
    /\ verified = NoneVerified
    /\ transcript_uploaded = FALSE
    /\ chat_collection_mode = TRUE
    /\ chat_data_extracted = TRUE
    /\ questions_asked = <<"account_name">>
    /\ current_question_category = CategoryName("account")
    /\ last_assistant_message = None
    /\ pc = "resolve"
    /\ widgets = {}
    /\ call_data = None
    /\ create_result = None
    /\ BotIdle

\* The results of the three functions for the record: next_question (line
\* 500), missing (line 438) and, per category, missing_fields (lines 595,
\* 675, 748).
Resolved(data, asked) ==
    [next_question |-> get_next_question(data, asked),
     missing |-> get_missing_required_fields_from_data(data),
     missing_fields |-> [category \in Categories |->
                            get_missing_required_fields(category, data[category])]]

ResolveQuestion ==
    /\ pc = "resolve"
    /\ call_data' = Resolved(extracted_data, questions_asked)
    /\ pc' = "resolved"
    /\ UNCHANGED <<conversation_stage, messages, extracted_data, manual_inputs, verified,
                   transcript_uploaded, chat_collection_mode, chat_data_extracted,
                   questions_asked, current_question_category, last_assistant_message,
                   widgets>>
    /\ UNCHANGED <<create_result, bot_vars>>

\* Lines 502-509: the question returned is asked unless it was asked before.
AskQuestion ==
    /\ pc = "resolved"
    /\ ~IsNone(call_data.next_question)
    /\ \E question_id \in {QuestionId(call_data.next_question.category,
                                      call_data.next_question.field)} :
          IF ~InSeq(question_id, questions_asked)
          THEN /\ questions_asked' = Append(questions_asked, question_id)
               /\ current_question_category' = CategoryName(call_data.next_question.category)
          ELSE UNCHANGED <<questions_asked, current_question_category>>
    /\ pc' = "answer"
    /\ call_data' = None
    /\ UNCHANGED <<conversation_stage, messages, extracted_data, manual_inputs, verified,
                   transcript_uploaded, chat_collection_mode, chat_data_extracted,
                   last_assistant_message, widgets>>
    /\ UNCHANGED <<create_result, bot_vars>>

\* The most answers of one conversation with the resolver.
MaxAnswers == 3

\* The next answer (line 466): its extraction replaces the record (line 483).
ReplaceRecord ==
    /\ pc = "answer"
    /\ UserTurns < MaxAnswers
    /\ messages' = add_message(messages, "user", [kind |-> "answer"])
    /\ \E extracted \in ResolverRecords : extracted_data' = extracted
    /\ pc' = "resolve"
    /\ UNCHANGED <<conversation_stage, manual_inputs, verified,
                   transcript_uploaded, chat_collection_mode, chat_data_extracted,
                   questions_asked, current_question_category, last_assistant_message,
                   widgets, call_data>>
    /\ UNCHANGED <<create_result, bot_vars>>

ResolverNext == ResolveQuestion \/ AskQuestion \/ ReplaceRecord

ResolverSpec == ResolverInit /\ [][ResolverNext]_vars

-----------------------------------------------------------------------------------------------------------------------------------------------------------------------------------------------------------------------------
(* The chat's turns: every answer is extracted (lines 474-483), the next     *)
(* question is resolved and asked (lines 499-518) or the chat is left        *)
(* (lines 519-529), with records that fill few fields or none.               *)

\* The most answers of one chat.
MaxTurns == 10

\* The records extracted from answers that fill little: no account or only
\* its name, no contact or only the last name, an opportunity with or
\* without a name.
TurnRecords ==
    {SalesCallData(c, a, OpportunityData([name |-> n])) :
        c \in {None, ContactData([last_name |-> TextX])},
        a \in {None, AccountData([name |-> Acme])},
        n \in {TextX, Empty}}

\* The chat stage after its initial question (lines 568-578), before the
\* first answer.
TurnsInit ==
    /\ conversation_stage = STAGE_CHAT_COLLECTION
    /\ messages = <<>>
    /\ extracted_data = None
    /\ manual_inputs = NoManualInputs
    /\ verified = NoneVerified
    /\ transcript_uploaded = FALSE
    /\ chat_collection_mode = TRUE
    /\ chat_data_extracted = FALSE
    /\ questions_asked = <<"account_name">>
    /\ current_question_category = None
    /\ last_assistant_message = None
    /\ pc = "answer"
    /\ widgets = {}
    /\ call_data = None
    /\ create_result = None
    /\ BotIdle

\* An answer (line 464): its extraction replaces the record (lines 481-483).
Answer ==
    /\ pc = "answer"
    /\ conversation_stage = STAGE_CHAT_COLLECTION
    /\ UserTurns < MaxTurns
    /\ messages' = add_message(messages, "user", [kind |-> "answer"])
    /\ \E extracted \in TurnRecords : extracted_data' = extracted
    /\ chat_data_extracted' = TRUE
    /\ pc' = "resolve"
    /\ UNCHANGED <<conversation_stage, manual_inputs, verified, transcript_uploaded,
                   chat_collection_mode, questions_asked, current_question_category,
                   last_assistant_message, widgets, call_data>>
    /\ UNCHANGED <<create_result, bot_vars>>

\* Lines 519-529: no question is left, the chat hands over to the account.
LeaveChat ==
    /\ pc = "resolved"
    /\ IsNone(call_data.next_question)
    /\ conversation_stage' = STAGE_ACCOUNT
    /\ pc' = "run"
    /\ call_data' = None
    /\ UNCHANGED <<messages, extracted_data, manual_inputs, verified, transcript_uploaded,
                   chat_collection_mode, chat_data_extracted, questions_asked,
                   current_question_category, last_assistant_message, widgets>>
    /\ UNCHANGED <<create_result, bot_vars>>

TurnsNext == Answer \/ ResolveQuestion \/ AskQuestion \/ LeaveChat

TurnsSpec == TurnsInit /\ [][TurnsNext]_vars

-----------------------------------------------------------------------------
(* Calls of detect_currency_from_location (src/src/utils.py), as the         *)
(* post-processing of an extraction makes them with the account's country   *)
(* and region (transcript_processor.py lines 251-261).                       *)

\* The countries of a call: none, the empty text, a country of no key, and
\* every key as written, in upper case and in lower case.
CallCountries ==
    {None, Empty, Str(<<"P", "e", "r", "u">>)}
       \cup UNION {{Str(CURRENCY_MAP[i][1]), Str(Upper(CURRENCY_MAP[i][1])),
                    Str(Lower(CURRENCY_MAP[i][1]))} : i \in 1..Len(CURRENCY_MAP)}

\* The regions of a call.
CallRegions ==
    {None, Empty, Str(<<"E", "U">>), Str(<<"A", "P", "A", "C">>),
     Str(<<"G", "e", "r", "m", "a", "n", "y">>)}

CurrencyInit ==
    /\ InitialSessionState
    /\ pc = "call"
    /\ widgets = {}
    /\ call_data \in [country : CallCountries, region : CallRegions]
    /\ create_result = None
    /\ BotIdle

\* currency = detect_currency_from_location(country=..., region=...)
DetectCurrency ==
    /\ pc = "call"
    /\ call_data' = [country |-> call_data.country, region |-> call_data.region,
                     currency |-> detect_currency_from_location(call_data.country,
                                                                call_data.region)]
    /\ pc' = "returned"
    /\ UNCHANGED <<conversation_stage, messages, extracted_data, manual_inputs, verified,
                   transcript_uploaded, chat_collection_mode, chat_data_extracted,
                   questions_asked, current_question_category, last_assistant_message,
                   widgets>>
    /\ UNCHANGED <<create_result, bot_vars>>

CurrencyNext == DetectCurrency

CurrencySpec == CurrencyInit /\ [][CurrencyNext]_vars

-----------------------------------------------------------------------------
(* _parse_extraction_response on response texts (src/src/                    *)
(* transcript_processor.py lines 164-220).  A text is a sequence of pieces:  *)
(* a brace, a blank, the fence of three backticks, the word json, or other   *)
(* text "x".  Of JSON documents the pieces can write the empty object.       *)

\* The most pieces of a response text.
MaxText == 4

\* The most fallback calls on the stack before Python's recursion limit
\* raises RecursionError.
MaxReparses == 3

Pieces == {"{", "}", "x", " ", "fence", "json"}

ResponseTexts == UNION {[1..n -> Pieces] : n \in 0..MaxText}

\* Lines 167-174: strip, drop a leading fence (with or without json), drop a
\* trailing fence, strip.
clean_response(response_text) ==
    LET text == Strip(response_text)
        opened == IF Len(text) >= 2 /\ text[1] = "fence" /\ text[2] = "json"
                  THEN SubSeq(text, 3, Len(text))
                  ELSE IF Len(text) >= 1 /\ text[1] = "fence"
                  THEN SubSeq(text, 2, Len(text))
                  ELSE text
        closed == IF Len(opened) >= 1 /\ opened[Len(opened)] = "fence"
                  THEN SubSeq(opened, 1, Len(opened) - 1)
                  ELSE opened
    IN Strip(closed)

\* json.loads(text): the empty object, blanks allowed around and inside the
\* braces, or JSONDecodeError.
json_loads(text) ==
    IF SelectSeq(text, LAMBDA c : c # " ") = <<"{", "}">>
       /\ \A i \in 1..Len(text) : text[i] \in {"{", "}", " "}
    THEN EmptyDict
    ELSE Raised("JSONDecodeError")

\* re.search of line 223 (an opening brace, anything, a closing brace): from
\* the first opening brace to the last closing brace after it, or None.
brace_match(text) ==
    LET opens == {i \in 1..Len(text) : text[i] = "{"}
        first == CHOOSE i \in opens : \A j \in opens : i <= j
        closes == {i \in 1..Len(text) : text[i] = "}" /\ i > first}
    IN IF opens = {} \/ closes = {} THEN None
       ELSE [group |-> SubSeq(text, first, CHOOSE i \in closes : \A j \in closes : j <= i)]

ParseInit ==
    /\ InitialSessionState
    /\ pc = "call"
    /\ widgets = {}
    /\ call_data \in [response_text : ResponseTexts, reparses : {0}]
    /\ create_result = None
    /\ BotIdle

\* The call returns the entities (lines 176-220) or raises ValueError when
\* the text holds no braces to re-parse (line 226).
ParseResponse ==
    /\ pc = "call"
    /\ \E data \in {json_loads(clean_response(call_data.response_text))} :
          /\ IsError(data) => IsNone(brace_match(clean_response(call_data.response_text)))
          /\ call_data' = [response_text |-> call_data.response_text,
                           reparses |-> call_data.reparses,
                           result |-> IF IsError(data) THEN Raised("ValueError")
                                      ELSE parse_extraction_response(data)]
    /\ pc' = "returned"
    /\ UNCHANGED <<conversation_stage, messages, extracted_data, manual_inputs, verified,
                   transcript_uploaded, chat_collection_mode, chat_data_extracted,
                   questions_asked, current_question_category, last_assistant_message,
                   widgets>>
    /\ UNCHANGED <<create_result, bot_vars>>

\* Lines 221-225: the fallback calls _parse_extraction_response with the
\* brace-delimited substring.
FallbackReparse ==
    /\ pc = "call"
    /\ call_data.reparses < MaxReparses
    /\ IsError(json_loads(clean_response(call_data.response_text)))
    /\ \E json_match \in {brace_match(clean_response(call_data.response_text))} :
          /\ ~IsNone(json_match)
          /\ call_data' = [response_text |-> json_match.group,
                           reparses |-> call_data.reparses + 1]
    /\ pc' = "call"
    /\ UNCHANGED <<conversation_stage, messages, extracted_data, manual_inputs, verified,
                   transcript_uploaded, chat_collection_mode, chat_data_extracted,
                   questions_asked, current_question_category, last_assistant_message,
                   widgets>>
    /\ UNCHANGED <<create_result, bot_vars>>

\* The fallback call that exceeds the recursion limit raises RecursionError.
RecursionLimit ==
    /\ pc = "call"
    /\ call_data.reparses = MaxReparses
    /\ IsError(json_loads(clean_response(call_data.response_text)))
    /\ ~IsNone(brace_match(clean_response(call_data.response_text)))
    /\ call_data' = [response_text |-> call_data.response_text,
                     reparses |-> call_data.reparses,
                     result |-> Raised("RecursionError")]
    /\ pc' = "returned"
    /\ UNCHANGED <<conversation_stage, messages, extracted_data, manual_inputs, verified,
                   transcript_uploaded, chat_collection_mode, chat_data_extracted,
                   questions_asked, current_question_category, last_assistant_message,
                   widgets>>
    /\ UNCHANGED <<create_result, bot_vars>>

ParseNext == ParseResponse \/ FallbackReparse \/ RecursionLimit

ParseSpec == ParseInit /\ [][ParseNext]_vars

-----
(* The update_meddic_fields tool (src/src/tools.py, src/src/adk_handler.py,  *)
(* src/src/agent.py, src/src/salesforce_client.py): the tool is called with  *)
(* dictionaries keyed by the names its declaration documents.                *)

\* The fields of MEDDICData (models.py lines 35-40).
MeddicFields ==
    <<"metrics_notes", "economic_buyers_notes", "decision_criteria_notes",
      "decision_process_notes", "identified_pain", "champion">>

\* The keys the tool's declaration gives to meddic_data (tools.py lines 90-95),
\* in the order of the fields they name.
DocumentedNames ==
    <<"metrics", "economic_buyer", "decision_criteria", "decision_process",
      "identify_pain", "champion">>

\* MEDDICData(**meddic_data): the model's fields are set from the keys of
\* their name; a key that is no field is ignored (the legacy names are
\* read-only properties, models.py lines 42-61).
MEDDICData(meddic_data) ==
    [field \in SeqToSet(MeddicFields) |-> DictGet(meddic_data, field, None)]

\* The Salesforce field update_opportunity_meddic writes a MEDDIC field to
\* (salesforce_client.py lines 266-277).
SalesforceField ==
    [metrics_notes |-> "MEDDIC_Metrics_Notes__c",
     economic_buyers_notes |-> "MEDDIC_Economic_Buyers_Notes__c",
     decision_criteria_notes |-> "MEDDIC_Decision_Criteria_Notes__c",
     decision_process_notes |-> "MEDDIC_Decision_Process_Notes__c",
     identified_pain |-> "MEDDIC_Identified_Pain__c",
     champion |-> "MEDDIC_Champion__c"]

\* update_opportunity_meddic (salesforce_client.py lines 253-287): the truthy
\* fields make update_dict; nothing is sent when it is empty; `accepted` is
\* Salesforce's answer to the update (it returns, or it raises).
update_opportunity_meddic(meddic, accepted) ==
    LET filled == {field \in SeqToSet(MeddicFields) : Truthy(meddic[field])}
        update_dict == [k \in {SalesforceField[field] : field \in filled} |->
                           meddic[CHOOSE field \in filled : SalesforceField[field] = k]]
    IN IF update_dict = EmptyDict
       THEN [ret |-> FALSE, sent |-> FALSE, update_dict |-> update_dict]
       ELSE [ret |-> accepted, sent |-> TRUE, update_dict |-> update_dict]

\* MrsSalesforceAgent.update_meddic_fields (agent.py lines 215-230)
update_meddic_fields(meddic_data, salesforce_available, accepted) ==
    IF ~salesforce_available
    THEN [ret |-> FALSE, sent |-> FALSE, update_dict |-> EmptyDict]
    ELSE update_opportunity_meddic(MEDDICData(meddic_data), accepted)

\* sf.Opportunity.update(opportunity_id, update_dict), when Salesforce accepts it.
OpportunityUpdate(opportunities, opportunity_id, update, accepted) ==
    IF update.sent /\ accepted
    THEN [opportunities EXCEPT ![opportunity_id] = DictUpdate(@, update.update_dict)]
    ELSE opportunities

\* The opportunity the tool is called for.
ToolOpportunity == "006A"

\* The values of a key of meddic_data: an empty text and a text.
ToolValues == {Empty, TextX}

\* The dictionaries the tool is called with: every set of documented names,
\* with texts of which at most one is empty.
ToolArguments ==
    UNION {{d \in [keys -> ToolValues] :
               Cardinality({k \in keys : d[k] = Empty}) <= 1} :
           keys \in SUBSET SeqToSet(DocumentedNames)}

ToolInit ==
    /\ InitialSessionState
    /\ pc = "run"
    /\ widgets = {}
    /\ call_data = None
    /\ create_result = None
    /\ conversation_state = [user_id \in Users |-> None]
    /\ handler = [user_id \in Users |-> Idle]
    /\ sf_opportunity = [opportunity_id \in {ToolOpportunity} |-> EmptyDict]
    /\ tool_response = None

\* tools.update_meddic_fields (tools.py lines 26-38) and
\* ADKHandler.handle_meddic_update (adk_handler.py lines 76-98).  The
\* response is kept with the call's arguments and with Salesforce's side of
\* the call: not configured, accepting the update, or rejecting it.
UpdateMeddicTool ==
    \E meddic_data \in ToolArguments, salesforce_available \in BOOLEAN, accepted \in BOOLEAN :
       \E update \in {update_meddic_fields(meddic_data, salesforce_available, accepted)} :
          /\ sf_opportunity' = OpportunityUpdate(sf_opportunity, ToolOpportunity, update, accepted)
          /\ tool_response' =
                [opportunity_id |-> ToolOpportunity,
                 meddic_data |-> meddic_data,
                 salesforce |-> IF ~salesforce_available THEN "not_configured"
                                ELSE IF accepted THEN "accepts" ELSE "rejects",
                 success |-> update.ret,
                 response |-> IF update.ret THEN "updated" ELSE "failed"]
          /\ UNCHANGED <<app_vars, conversation_state, handler>>

ToolNext == UpdateMeddicTool

ToolSpec == ToolInit /\ [][ToolNext]_vars

-----------------------------------------------------------------------------
(* The Slack bot (src/mrs-salesforce/slack_bot.py, slack_app.py).  The web   *)
(* server runs the handlers of different events in different threads: one    *)
(* handler at a time runs for a user, and the handlers of different users    *)
(* interleave at every access of conversation_state and every call of the    *)
(* agent.  Of an entry of conversation_state the model keeps opportunity_id  *)
(* and missing_fields; the ids Salesforce gives to opportunities are         *)
(* 1, 2, ..., so that an entry (a dict object) is identified by its id.      *)

\* The most opportunities the bot creates.
MaxTranscripts == 2

\* A variant of StateKey: one entry for all users.
SharedKey(user_id) == "U1"

\* The key of the user's entry of conversation_state (lines 49, 218, 253,
\* 262, 286).
StateKey(user_id) == user_id

\* The lists get_missing_fields returns for the extracted MEDDIC data of the
\* model's transcripts (agent.py lines 49-52).
MissingFieldLists == {<<>>, <<"champion">>, <<"metrics_notes", "champion">>}

\* The dicts _extract_field_values_from_text can return (lines 316-438):
\* values for some of the missing fields; a value is stripped after it was
\* found truthy (lines 401, 433, 439), so that it can be the empty text.
FieldValues(missing_fields) ==
    UNION {[keys -> {TextX, Empty}] : keys \in SUBSET SeqToSet(missing_fields)}

SlackInit ==
    /\ InitialSessionState
    /\ pc = "run"
    /\ widgets = {}
    /\ call_data = None
    /\ create_result = None
    /\ BotIdle

\* handle_message (lines 27-64): the user's message goes to the field
\* collection when the user has an entry, and is processed when it is a
\* transcript.
HandleMessage(user_id) ==
    /\ handler[user_id] = Idle
    /\ \E is_transcript \in BOOLEAN :
          IF Truthy(conversation_state[StateKey(user_id)])
          THEN handler' = [handler EXCEPT ![user_id] = [pc |-> "field_collection"]]
          ELSE /\ is_transcript
               /\ handler' = [handler EXCEPT ![user_id] =
                                 [pc |-> "process_transcript", event |-> "message"]]
    /\ UNCHANGED <<app_vars, conversation_state, sf_opportunity, tool_response>>

\* The slash command (slack_app.py lines 63-84) and a shared text file
\* (lines 66-98): the text is processed as a transcript.
HandleCommand(user_id) ==
    /\ handler[user_id] = Idle
    /\ handler' = [handler EXCEPT ![user_id] =
                      [pc |-> "process_transcript", event |-> "command"]]
    /\ UNCHANGED <<app_vars, conversation_state, sf_opportunity, tool_response>>

\* _process_transcript, the agent's call (lines 166-174): the records are
\* created; the opportunity holds the MEDDIC fields that are not missing.
ProcessTranscriptMessage(user_id) ==
    /\ handler[user_id].pc = "process_transcript"
    /\ \E missing_fields \in MissingFieldLists, created \in BOOLEAN :
          IF created /\ Cardinality(DOMAIN sf_opportunity) < MaxTranscripts
          THEN \E opportunity_id \in {Cardinality(DOMAIN sf_opportunity) + 1} :
                  /\ sf_opportunity' =
                        [id \in DOMAIN sf_opportunity \cup {opportunity_id} |->
                            IF id \in DOMAIN sf_opportunity THEN sf_opportunity[id]
                            ELSE [k \in {SalesforceField[field] :
                                            field \in SeqToSet(MeddicFields)
                                                         \ SeqToSet(missing_fields)} |-> TextX]]
                  /\ handler' = [handler EXCEPT ![user_id] =
                                    [pc |-> "start_conversation",
                                     opportunity_id |-> Num(opportunity_id),
                                     missing_fields |-> missing_fields]]
          ELSE /\ handler' = [handler EXCEPT ![user_id] =
                                 [pc |-> "start_conversation",
                                  opportunity_id |-> None,
                                  missing_fields |-> missing_fields]]
               /\ UNCHANGED sf_opportunity
    /\ UNCHANGED <<app_vars, conversation_state, tool_response>>

\* _process_transcript, lines 215-235: with missing fields and an
\* opportunity the user's entry is written.
StartConversation(user_id) ==
    /\ handler[user_id].pc = "start_conversation"
    /\ conversation_state' =
          IF handler[user_id].missing_fields # <<>> /\ Truthy(handler[user_id].opportunity_id)
          THEN [conversation_state EXCEPT ![StateKey(user_id)] =
                   [opportunity_id |-> handler[user_id].opportunity_id,
                    missing_fields |-> handler[user_id].missing_fields]]
          ELSE conversation_state
    /\ handler' = [handler EXCEPT ![user_id] = Idle]
    /\ UNCHANGED <<app_vars, sf_opportunity, tool_response>>

\* _handle_field_collection, lines 253-267: the handler takes the user's
\* entry (a reference to the dict) and extracts values from the text.
FieldCollection(user_id) ==
    /\ handler[user_id].pc = "field_collection"
    /\ \E state \in {conversation_state[StateKey(user_id)]} :
          IF ~Truthy(state)
          THEN /\ handler' = [handler EXCEPT ![user_id] = Idle]
               /\ UNCHANGED conversation_state
          ELSE IF state.missing_fields = <<>> \/ ~Truthy(state.opportunity_id)
          THEN /\ conversation_state' = [conversation_state EXCEPT ![StateKey(user_id)] = None]
               /\ handler' = [handler EXCEPT ![user_id] = Idle]
          ELSE /\ \E field_values \in FieldValues(state.missing_fields) :
                     handler' = [handler EXCEPT ![user_id] =
                                    [pc |-> "update",
                                     state |-> state.opportunity_id,
                                     missing_fields |-> state.missing_fields,
                                     opportunity_id |-> state.opportunity_id,
                                     field_values |-> field_values]]
               /\ UNCHANGED conversation_state
    /\ UNCHANGED <<app_vars, sf_opportunity, tool_response>>

\* state["missing_fields"] = remaining_fields (line 275): the dict the
\* handler holds is changed, wherever conversation_state refers to it.
SetMissingFields(states, state, remaining_fields) ==
    [key \in DOMAIN states |->
        IF Truthy(states[key]) /\ states[key].opportunity_id = state
        THEN [states[key] EXCEPT !.missing_fields = remaining_fields]
        ELSE states[key]]

\* _handle_field_collection, lines 269-313: the opportunity is updated with
\* the values; on success the entry keeps the remaining fields or is deleted.
UpdateFields(user_id) ==
    /\ handler[user_id].pc = "update"
    /\ \E local \in {handler[user_id]}, accepted \in BOOLEAN :
          IF local.field_values = EmptyDict
          THEN UNCHANGED <<conversation_state, sf_opportunity>>
          ELSE \E update \in {update_meddic_fields(local.field_values, TRUE, accepted)},
                  remaining_fields \in {SelectSeq(local.missing_fields,
                                           LAMBDA f : f \notin DOMAIN local.field_values)} :
                  /\ sf_opportunity' = OpportunityUpdate(sf_opportunity,
                                          local.opportunity_id.num, update, accepted)
                  /\ conversation_state' =
                        IF ~update.ret THEN conversation_state
                        ELSE IF remaining_fields # <<>>
                        THEN SetMissingFields(conversation_state, local.state, remaining_fields)
                        ELSE [conversation_state EXCEPT ![StateKey(user_id)] = None]
    /\ handler' = [handler EXCEPT ![user_id] = Idle]
    /\ UNCHANGED <<app_vars, tool_response>>

\* The steps of the handler that runs for the user.
Handles(user_id) ==
    \/ HandleMessage(user_id)
    \/ HandleCommand(user_id)
    \/ ProcessTranscriptMessage(user_id)
    \/ StartConversation(user_id)
    \/ FieldCollection(user_id)
    \/ UpdateFields(user_id)

SlackNext == \E user_id \in Users : Handles(user_id)

SlackSpec == SlackInit /\ [][SlackNext]_vars

-----
(* Properties of the resolver (under ResolverSpec) *)

\* The keys of the questions dict in the order of their declaration (lines 441-451).
QuestionRegistry ==
    <<[category |-> "account", field |-> "name"],
      [category |-> "account", field |-> "currency"],
      [category |-> "account", field |-> "region"],
      [category |-> "contact", field |-> "last_name"],
      [category |-> "contact", field |-> "email"],
      [category |-> "contact", field |-> "title"],
      [category |-> "opportunity", field |-> "name"],
      [category |-> "opportunity", field |-> "amount"],
      [category |-> "opportunity", field |-> "close_date"]>>

\* The value is null, empty or only whitespace.
IsBlankValue(v) == IsNone(v) \/ (IsStr(v) /\ Strip(v.str) = <<>>)

\* The field of the question is missing from the record (its entity is
\* absent or its value is null, empty or only whitespace) and was not asked.
IsOpen(data, asked, q) ==
    /\ IsNone(data[q.category]) \/ IsBlankValue(data[q.category][q.field])
    /\ ~InSeq(QuestionId(q.category, q.field), asked)

\* C14: the question get_next_question returns for a record and a
\* questions_asked list is never one whose identifier category_field is
\* already in questions_asked.
NextQuestionWasNotAsked ==
    pc = "resolved" /\ ~IsNone(call_data.next_question) =>
        ~InSeq(QuestionId(call_data.next_question.category, call_data.next_question.field),
               questions_asked)

\* The account's name is missing and was asked: the question returned is
\* another one.
AskedFieldIsSkipped ==
    /\ pc = "resolved"
    /\ ~IsNone(call_data.next_question)
    /\ InSeq("name", call_data.missing["account"])
    /\ InSeq("account_name", questions_asked)

\* C15: get_next_question returns the first pair (category, field), in the
\* order account, contact, opportunity and in registry order within a
\* category, that is missing from the record and whose id is not in
\* questions_asked; so no opportunity question is returned while an account
\* or contact field is missing and not asked.
NextQuestionIsFirstOpen ==
    pc = "resolved" =>
        \A i \in 1..Len(QuestionRegistry) :
            /\ IsOpen(extracted_data, questions_asked, QuestionRegistry[i])
            /\ \A j \in 1..(i - 1) :
                  ~IsOpen(extracted_data, questions_asked, QuestionRegistry[j])
            => call_data.next_question = QuestionRegistry[i]

\* C16: get_next_question returns None exactly when every required field of
\* the three categories is present in the record or has its identifier in
\* questions_asked.
NoneExactlyWhenNothingOpen ==
    pc = "resolved" =>
        (IsNone(call_data.next_question)
            <=> \A i \in 1..Len(QuestionRegistry) :
                   ~IsOpen(extracted_data, questions_asked, QuestionRegistry[i]))

\* C17: a required field counts as missing exactly when its value is null,
\* empty or only whitespace, both in the chat resolver's computation and in
\* the per-category check of the edit stages.
BlankValuesCountAsMissing ==
    pc = "resolved" =>
        \A i \in 1..Len(QuestionRegistry) :
            \A q \in {QuestionRegistry[i]} :
                \A blank \in {IsNone(extracted_data[q.category])
                                \/ IsBlankValue(extracted_data[q.category][q.field])} :
                    /\ InSeq(q.field, call_data.missing[q.category]) <=> blank
                    /\ InSeq(q.field, call_data.missing_fields[q.category]) <=> blank

-----------------------------------------------------------------------------
(* Properties of the conversation (under Spec) *)

\* list(stages.keys()).index(stage): the place of a stage in the order
StageIndex(stage) == CHOOSE i \in 1..Len(StageOrder) : StageOrder[i] = stage

\* A step of one of the two reset buttons.
IsReset == conversation_stage' = STAGE_TRANSCRIPT /\ messages' = <<>>

\* C1: in every state whose stage is ACCOUNT_VERIFY, CONTACT_VERIFY or
\* OPPORTUNITY_VERIFY, the record merged from the extracted snapshot and
\* manual_inputs has no missing required field of the stage's category.
VerifyStagesHaveNoMissingFields ==
    \A category \in Categories :
        conversation_stage = VerifyStage(category) =>
            \A m \in {merge_manual_inputs(extracted_data, manual_inputs)} :
                get_missing_required_fields(category, EntityOf(m.ret, category)) = <<>>

\* C2: a script run with no new input appends no message equal to the one
\* the log ends with (the summary, the "could not extract" notice, the
\* Missing prompt and the initial question are emitted at most once).
RerunAppendsNoDuplicate ==
    [][pc = "run" /\ messages # <<>> /\ Len(messages') = Len(messages) + 1
          => messages'[Len(messages')] # messages[Len(messages)]]_vars

\* The record extracted from an answer with an account that has only a name,
\* no contact and a full opportunity.
ScenarioRecord ==
    process_call_transcript([data |-> NameOnlyAnswer, mentions_google |-> FALSE])

InScenario == transcript_uploaded /\ extracted_data = ScenarioRecord

\* The user has filled every field the account form asked for.
AccountFilled ==
    \A m \in {merge_manual_inputs(extracted_data, manual_inputs)} :
        get_missing_required_fields("account", EntityOf(m.ret, "account")) = <<>>

\* C3: in the scenario (account with only a name, no contact, full
\* opportunity; the account's fields filled and the account confirmed) the
\* contact stage leads to its form: a script run of the
\* stage shows the form asking for the missing fields, or advances to
\* CONTACT_VERIFY, or appends a message the log does not hold yet.
ScenarioContactStageLeadsToForm ==
    [][InScenario /\ AccountFilled /\ conversation_stage = STAGE_CONTACT /\ pc = "run"
          => \/ pc' = "wait" /\ FormWidget("contact") \in widgets'
             \/ conversation_stage' = STAGE_CONTACT_VERIFY
             \/ /\ Len(messages') = Len(messages) + 1
                /\ ~InSeq(messages'[Len(messages')], messages)]_vars

\* C4: the Edit action of X_VERIFY moves the stage to X's edit stage and
\* leaves verified[X] false and the two other flags unchanged.
EditClearsVerifiedFlag ==
    [][\A category \in Categories :
          Edit(category) =>
              /\ conversation_stage' = EditStage(category)
              /\ verified'[category] = FALSE
              /\ \A other \in Categories \ {category} : verified'[other] = verified[other]]_vars

\* C5 as claimed: apart from reset, every stage change moves to a later stage
\* of the order, or is an Edit action that goes one stage back from X_VERIFY
\* to X's edit stage.
StageChangesForwardOrEdit ==
    [][conversation_stage' # conversation_stage /\ ~IsReset
          => \/ StageIndex(conversation_stage') > StageIndex(conversation_stage)
             \/ \E category \in Categories :
                   /\ pc = "wait"
                   /\ conversation_stage = VerifyStage(category)
                   /\ conversation_stage' = EditStage(category)]_vars

\* C5: apart from reset, every stage change moves to a later stage of the
\* order, or is an Edit action that goes one stage back from X_VERIFY to X's
\* edit stage, or is "Go Back to Edit", which goes one stage back from
\* FINAL_REVIEW to OPPORTUNITY_VERIFY.
StageChangesForwardEditOrGoBack ==
    [][conversation_stage' # conversation_stage /\ ~IsReset
          => \/ StageIndex(conversation_stage') > StageIndex(conversation_stage)
             \/ \E category \in Categories :
                   /\ pc = "wait"
                   /\ conversation_stage = VerifyStage(category)
                   /\ conversation_stage' = EditStage(category)
             \/ /\ pc = "wait"
                /\ conversation_stage = STAGE_FINAL_REVIEW
                /\ conversation_stage' = STAGE_OPPORTUNITY_VERIFY]_vars

\* The opportunity's edit stage after its confirmation: reached by "Go Back
\* to Edit" followed by "Edit Opportunity", the two backward steps.
WentBackFromFinalReviewAndEdited ==
    conversation_stage = STAGE_OPPORTUNITY /\ verified["opportunity"]

-----------------------------------------------------------------------------
(* Properties of merge_manual_inputs (under MergeSpec) *)

\* What precedence makes of a non-empty manual value: the value, and for
\* the opportunity's amount the number it parses to (`otherwise` when it
\* does not parse).
ManualValue(category, field, v, otherwise) ==
    IF category = "opportunity" /\ field = "amount"
    THEN IF IsError(Float(v)) THEN otherwise ELSE Float(v)
    ELSE v

MergeIsPureAndRepeatable ==
    [][MergeCall =>
          /\ extracted_data' = extracted_data
          /\ manual_inputs' = manual_inputs
          /\ UNCHANGED <<conversation_stage, messages, verified, transcript_uploaded,
                         chat_collection_mode, chat_data_extracted, questions_asked,
                         current_question_category, last_assistant_message>>
          /\ (pc = "returned" => call_data' = call_data)]_vars

\* A merge returned a record that differs from the snapshot it was made of.
MergedRecordDiffersFromSnapshot ==
    /\ pc = "returned"
    /\ ~IsError(call_data)
    /\ call_data # extracted_data
    /\ call_data.opportunity # extracted_data.opportunity

\* The fields a model gives an entity built from a dict: the dict's value
\* (the amount parsed, or None when it does not parse), or the field's default.
Synthesized(category, manual_cat) ==
    LET defaults == CASE category = "account" -> AccountDefaults
                      [] category = "contact" -> ContactDefaults
                      [] category = "opportunity" -> OpportunityDefaults
    IN [field \in DOMAIN defaults |->
           IF field \in DOMAIN manual_cat
           THEN IF Truthy(manual_cat[field])
                THEN ManualValue(category, field, manual_cat[field], None)
                ELSE IF field = "amount" THEN None ELSE manual_cat[field]
           ELSE defaults[field]]

-----------------------------------------------------------------------------
(* Properties of the forms and of verification (under Spec) *)

\* A text that is not empty and that float() does not parse.
NonNumeric(v) == IsStr(v) /\ Truthy(v) /\ IsError(Float(v))

\* The opportunity's amount is a missing required field of the merged record.
AmountIsMissing(extracted, manual) ==
    \A m \in {merge_manual_inputs(extracted, manual)} :
        InSeq("amount", get_missing_required_fields("opportunity",
                                                    EntityOf(m.ret, "opportunity")))

\* C11: when the opportunity form asks for the amount and the amount it
\* submits (the one line 774 writes) is not numeric, the save leaves the
\* amount of manual_inputs as it was, the amount is still a missing required
\* field of the merged record, and the stage stays OPPORTUNITY_EDIT (the form
\* prompts again) and does not become OPPORTUNITY_VERIFY.
NonNumericAmountIsRejected ==
    [][/\ SaveOpportunityFields
       /\ AmountIsMissing(extracted_data, manual_inputs)
       /\ NonNumeric(DictGet(manual_inputs'["opportunity"], "amount", None))
       => /\ DictGet(manual_inputs'["opportunity"], "amount", None)
                = DictGet(manual_inputs["opportunity"], "amount", None)
          /\ AmountIsMissing(extracted_data', manual_inputs')
          /\ conversation_stage' = STAGE_OPPORTUNITY]_vars

\* C12: in every reachable state the stages of the contact have the account
\* verified, the stages of the opportunity have the account and the contact
\* verified, and FINAL_REVIEW and COMPLETE have all three categories verified.
VerificationGates ==
    /\ conversation_stage \in {STAGE_CONTACT, STAGE_CONTACT_VERIFY} => verified["account"]
    /\ conversation_stage \in {STAGE_OPPORTUNITY, STAGE_OPPORTUNITY_VERIFY}
          => verified["account"] /\ verified["contact"]
    /\ conversation_stage \in {STAGE_FINAL_REVIEW, STAGE_COMPLETE}
          => \A category \in Categories : verified[category]

\* The end of a conversation: every gate was passed.
CompleteWithAllVerified ==
    conversation_stage = STAGE_COMPLETE /\ \A category \in Categories : verified[category]

\* C13: verified[X] changes from false to true only in a step of the confirm
\* action of X_VERIFY; no save, extraction, automatic advance or script run
\* sets it.
OnlyConfirmSetsVerified ==
    [][\A category \in Categories :
          ~verified[category] /\ verified'[category] => Confirm(category)]_vars

\* The account has just been confirmed, the contact not yet.
AccountConfirmedContactNot ==
    /\ conversation_stage = STAGE_CONTACT
    /\ verified["account"]
    /\ ~verified["contact"]

\* C18: in every reachable state questions_asked holds no identifier twice,
\* and every step other than a reset keeps its entries in their places and
\* at most appends to them.
QuestionsAskedOnlyGrows ==
    /\ [](\A i, j \in 1..Len(questions_asked) :
             questions_asked[i] = questions_asked[j] => i = j)
    /\ [][~IsReset =>
             /\ Len(questions_asked') >= Len(questions_asked)
             /\ SubSeq(questions_asked', 1, Len(questions_asked)) = questions_asked]_vars

\* Two chat turns have each appended a question to the initial one.
ThreeQuestionsAsked == Len(questions_asked) >= 3

\* The extraction of the chat turn of this step returned a record (a turn
\* whose extraction raised answers with the request to continue).
TurnExtracted == messages'[Len(messages')].content.kind # "please_continue"

\* C19: a chat turn moves the stage from CHAT_COLLECTION to ACCOUNT_EDIT
\* exactly when its extraction succeeds and get_next_question reports no
\* remaining question for the record extracted; every other chat turn leaves
\* the stage CHAT_COLLECTION, and nothing but a chat turn or a reset takes
\* the stage out of CHAT_COLLECTION.
ChatLeavesExactlyWhenResolved ==
    [][/\ ChatTurn =>
             IF TurnExtracted /\ IsNone(get_next_question(extracted_data', questions_asked))
             THEN conversation_stage' = STAGE_ACCOUNT
             ELSE conversation_stage' = STAGE_CHAT_COLLECTION
       /\ /\ conversation_stage = STAGE_CHAT_COLLECTION
          /\ conversation_stage' # STAGE_CHAT_COLLECTION
          /\ ~IsReset
          => ChatTurn]_vars

\* The chat has handed over to the account stage.
ChatHandedOverToAccount ==
    /\ conversation_stage = STAGE_ACCOUNT
    /\ chat_collection_mode
    /\ chat_data_extracted

\* C20: the confirmation in ACCOUNT_VERIFY moves the stage to CONTACT_EDIT,
\* in CONTACT_VERIFY to OPPORTUNITY_EDIT and in OPPORTUNITY_VERIFY to
\* FINAL_REVIEW; it sets the verified flag of its own category and no other,
\* and changes neither the extracted snapshot, nor manual_inputs, nor
\* questions_asked.
ConfirmationAdvancesAndFrames ==
    [][\A category \in Categories :
          Confirm(category) =>
              /\ category = "account" => conversation_stage' = STAGE_CONTACT
              /\ category = "contact" => conversation_stage' = STAGE_OPPORTUNITY
              /\ category = "opportunity" => conversation_stage' = STAGE_FINAL_REVIEW
              /\ verified'[category]
              /\ \A other \in Categories \ {category} : verified'[other] = verified[other]
              /\ extracted_data' = extracted_data
              /\ manual_inputs' = manual_inputs
              /\ questions_asked' = questions_asked]_vars

\* The last confirmation of a conversation in which the user filled in fields.
ConfirmedWithManualInputs ==
    /\ conversation_stage = STAGE_FINAL_REVIEW
    /\ pc = "run"
    /\ manual_inputs # NoManualInputs
    /\ messages[Len(messages)].content.kind = "move_on"

-----------------------------------------------------------------------------
(* Properties of failures, reset and submission (under Spec) *)

\* C21: an extraction that fails, in TRANSCRIPT_INPUT or in CHAT_COLLECTION,
\* changes neither the stage, nor the extracted snapshot, nor manual_inputs,
\* nor the verified flags (a step of "Process Transcript" that changes
\* anything stores a record that was extracted; a chat turn whose extraction
\* raised leaves the four alone), and the conversation goes on: the script
\* runs again, and every page of the two stages offers its inputs.
ExtractionFailureChangesNothing ==
    /\ [](pc = "wait" /\ conversation_stage = STAGE_CHAT_COLLECTION
             => "chat_input" \in widgets)
    /\ [](pc = "wait" /\ conversation_stage = STAGE_TRANSCRIPT
             => {"process_transcript", "provide_chat"} \subseteq widgets)
    /\ [][/\ ProcessTranscript =>
                /\ Truthy(extracted_data') /\ ~IsError(extracted_data')
                /\ conversation_stage' = STAGE_ACCOUNT
          /\ ChatTurn /\ ~TurnExtracted =>
                /\ UNCHANGED <<conversation_stage, extracted_data, manual_inputs, verified>>
                /\ pc' = "run"]_vars

\* A chat turn whose extraction raised, after a turn that extracted a record.
ChatTurnFailedAfterExtraction ==
    /\ conversation_stage = STAGE_CHAT_COLLECTION
    /\ messages # <<>>
    /\ messages[Len(messages)].content.kind = "please_continue"
    /\ Truthy(extracted_data)

\* The first question of the registry whose field is unfilled in the snapshot
\* (every field, when there is no snapshot) and which was not asked.
IsFallbackQuestion(question_id) ==
    \E i \in 1..Len(QuestionRegistry) :
        /\ question_id = QuestionId(QuestionRegistry[i].category, QuestionRegistry[i].field)
        /\ \A j \in 1..i :
              (j = i) <=> /\ ~InSeq(QuestionId(QuestionRegistry[j].category,
                                               QuestionRegistry[j].field), questions_asked)
                          /\ \/ IsNone(extracted_data)
                             \/ IsOpen(extracted_data, questions_asked, QuestionRegistry[j])

\* C22: after a chat turn whose extraction failed, the assistant message the
\* turn appends asks for the highest-priority required field that is
\* unfilled and not yet asked, and the field's id is appended to
\* questions_asked.
FailedTurnAsksNextQuestion ==
    [][ChatTurn /\ ~TurnExtracted =>
          /\ messages'[Len(messages')].role = "assistant"
          /\ messages'[Len(messages')].content.kind = "question"
          /\ IsFallbackQuestion(messages'[Len(messages')].content.question_id)
          /\ questions_asked' =
                Append(questions_asked, messages'[Len(messages')].content.question_id)]_vars

\* C23: on every page of every stage the reset is enabled, and a step of a
\* reset button yields the state of a freshly created session: stage
\* TRANSCRIPT_INPUT, an empty message log, no manual input, no verified flag,
\* no question asked, no extracted snapshot, and the script about to run.
ResetYieldsFreshSession ==
    /\ [](pc = "wait" => ENABLED ResetConversation)
    /\ [][ResetConversation \/ ProcessAnotherTranscript =>
             /\ InitialSessionState'
             /\ pc' = "run" /\ widgets' = {} /\ call_data' = None]_vars

\* A page of the last stage before a reset: fields were typed into forms,
\* the categories were confirmed and the records were submitted.
ResetOfferedOnFullSession ==
    /\ pc = "wait"
    /\ conversation_stage = STAGE_COMPLETE
    /\ manual_inputs # NoManualInputs
    /\ Truthy(extracted_data)
    /\ \A category \in Categories : verified[category]
    /\ ENABLED ResetConversation

\* The last message of the log is of the given kind.
LastMessageIs(log, kind) == log # <<>> /\ log[Len(log)].content.kind = kind

\* C24: a submission of the records at FINAL_REVIEW moves the conversation
\* to COMPLETE, whether the agent answered with a preview acknowledgment or
\* with the ids of a live creation; COMPLETE is entered from no stage but
\* FINAL_REVIEW and by no step but a submission.
CompleteOnlyBySubmission ==
    [][/\ CreateRecords =>
             /\ conversation_stage' = STAGE_COMPLETE
             /\ \/ LastMessageIs(messages', "preview_mode")
                \/ LastMessageIs(messages', "success")
                \/ LastMessageIs(messages', "no_records")
                \/ LastMessageIs(messages', "errors")
       /\ conversation_stage # STAGE_COMPLETE /\ conversation_stage' = STAGE_COMPLETE =>
             /\ conversation_stage = STAGE_FINAL_REVIEW
             /\ CreateRecords]_vars

\* The conversation completed on a preview acknowledgment.
CompletedOnPreview ==
    /\ conversation_stage = STAGE_COMPLETE
    /\ LastMessageIs(messages, "preview_mode")

\* The result of create_records_from_data when Salesforce is not configured.
PreviewResult ==
    [preview_mode |-> TRUE, created_records |-> {}, errors |-> <<>>, calls |-> <<>>]

\* C25: when Salesforce is not configured, create_records_from_data sends no
\* create, and returns preview_mode true with no created record and no
\* error, whatever the record; after a submission that returned the preview
\* result the last message is the preview acknowledgment, no failure is
\* reported and the stage is COMPLETE.
PreviewCreatesNothing ==
    /\ pc = "wait" /\ conversation_stage = STAGE_FINAL_REVIEW =>
          \A created \in [Categories -> BOOLEAN] :
              create_records_from_data(call_data, FALSE, created) = PreviewResult
    /\ Truthy(create_result) /\ create_result.preview_mode =>
          /\ create_result = PreviewResult
          /\ conversation_stage = STAGE_COMPLETE
          /\ LastMessageIs(messages, "preview_mode")

\* A preview submission of a record with the three entities.
PreviewOfFullRecord ==
    /\ Truthy(create_result)
    /\ create_result.preview_mode
    /\ \A category \in Categories : IsSent(call_data, category)

\* The entities present in the submitted record.
EntitiesPresent == {category \in Categories : Truthy(call_data[category])}

\* C26: in live mode every entity present in the record ends either with its
\* id in created_records or with one error naming it, never both, also when
\* an earlier entity failed; the created ids and the errors together are as
\* many as the entities present.
EveryEntityIsAttempted ==
    Truthy(create_result) /\ ~create_result.preview_mode =>
        /\ \A category \in EntitiesPresent :
              (CreatedKey(category) \in create_result.created_records)
                 <=> ~InSeq(category, create_result.errors)
        /\ Cardinality(create_result.created_records) + Len(create_result.errors)
              = Cardinality(EntitiesPresent)

\* A live submission in which the account failed and the opportunity was
\* created.
OpportunityCreatedAfterAccountFailed ==
    /\ Truthy(create_result)
    /\ ~create_result.preview_mode
    /\ InSeq("account", create_result.errors)
    /\ CreatedKey("opportunity") \in create_result.created_records

\* The Salesforce object of an entity category.
SObject(category) ==
    CASE category = "account" -> "Account"
      [] category = "contact" -> "Contact"
      [] category = "opportunity" -> "Opportunity"

\* C27: a live submission invokes the create at most once per entity present, in the
\* order account, contact, opportunity; the contact's create carries the
\* account's id and the opportunity's create carries the account's id and the
\* contact's id, each exactly when the earlier create returned one.
CreatesAreOrderedAndLinked ==
    Truthy(create_result) /\ ~create_result.preview_mode =>
        \A i \in 1..Len(create_result.calls) :
           /\ \E category \in EntitiesPresent :
                 create_result.calls[i].sobject = SObject(category)
           /\ \A j \in 1..Len(create_result.calls) :
                 i < j => \E m, n \in 1..3 :
                             /\ m < n
                             /\ create_result.calls[i].sobject = SObject(CategoryPriority[m])
                             /\ create_result.calls[j].sobject = SObject(CategoryPriority[n])
           /\ create_result.calls[i].sobject = "Account" =>
                 create_result.calls[i].links = {}
           /\ create_result.calls[i].sobject = "Contact" =>
                 create_result.calls[i].links =
                    {f \in {"AccountId"} :
                        CreatedKey("account") \in create_result.created_records}
           /\ create_result.calls[i].sobject = "Opportunity" =>
                 create_result.calls[i].links =
                    {f \in {"AccountId", "ContactId"} :
                        \/ f = "AccountId"
                           /\ CreatedKey("account") \in create_result.created_records
                        \/ f = "ContactId"
                           /\ CreatedKey("contact") \in create_result.created_records}

\* C28: a step that is not a reset removes no field from a category's map
\* of manual_inputs and replaces no value stored there by an empty one.
ManualInputsOnlyAccumulate ==
    [][~(ResetConversation \/ ProcessAnotherTranscript) =>
          \A category \in Categories :
              \A field \in DOMAIN manual_inputs[category] :
                  /\ ~IsNone(manual_inputs[category][field]) =>
                        ~IsNone(manual_inputs'[category][field])
                  /\ Truthy(manual_inputs[category][field]) =>
                        Truthy(manual_inputs'[category][field])]_vars

-----------------------------------------------------------------------------
(* Properties of the update_meddic_fields tool (under ToolSpec) *)

\* C30: a call of the tool with a dictionary keyed by the documented names,
\* while Salesforce is configured and accepts the update, leaves every
\* supplied non-empty value in the corresponding MEDDIC field of the
\* opportunity, and its response reports success when a value was supplied.
ToolWritesDocumentedFields ==
    ~IsNone(tool_response) /\ tool_response.salesforce = "accepts" =>
        LET supplied == {i \in 1..Len(DocumentedNames) :
                            /\ DocumentedNames[i] \in DOMAIN tool_response.meddic_data
                            /\ Truthy(tool_response.meddic_data[DocumentedNames[i]])}
            written == sf_opportunity[tool_response.opportunity_id]
        IN /\ \A i \in supplied :
                 /\ SalesforceField[MeddicFields[i]] \in DOMAIN written
                 /\ written[SalesforceField[MeddicFields[i]]]
                       = tool_response.meddic_data[DocumentedNames[i]]
           /\ supplied # {} => tool_response.success

-----------------------------------------------------------------------------
(* Properties of the Slack bot (under SlackSpec) *)

\* C29: a step of the handler that runs for a user leaves the entry of
\* conversation_state and the handler of every other user as they are, and
\* the entry a handler takes for the field collection is the entry of its
\* own user, whatever the handlers of the other users have done in between.
UsersOwnTheirState ==
    [][\A user_id \in Users :
          Handles(user_id) =>
             /\ \A other \in Users \ {user_id} :
                   /\ conversation_state'[other] = conversation_state[other]
                   /\ handler'[other] = handler[other]
             /\ handler'[user_id].pc = "update" =>
                   /\ Truthy(conversation_state[user_id])
                   /\ handler'[user_id].state = conversation_state[user_id].opportunity_id]_vars

\* Both users are in a field collection, each for its own opportunity, and
\* both handlers are about to update.
TwoFieldCollectionsInterleave ==
    /\ \A user_id \in Users :
          /\ handler[user_id].pc = "update"
          /\ Truthy(conversation_state[user_id])
    /\ conversation_state["U1"].opportunity_id # conversation_state["U2"].opportunity_id

-----------------------------------------------------------------------------
(* Properties of script runs, dead ends and the submitted record (under Spec) *)

\* The most messages a chain of script runs appends after the last message
\* of the user: the answer of the handler and the stage's summary and prompt.
MaxChain == 5

\* The last n messages of the log hold no message of the user.
NoUserMessageIn(log, n) ==
    /\ Len(log) >= n
    /\ \A i \in (Len(log) - n + 1)..Len(log) : log[i].role = "assistant"

\* C31: the script runs that follow one another without a user action append
\* finitely many messages: a script run that reruns the script never makes
\* the log end with more than MaxChain messages appended since the user's
\* last one, also when the record has no entity for the stage's category.
RerunChainIsFinite ==
    [][pc = "run" /\ pc' = "run" /\ Len(messages') > Len(messages) =>
          ~NoUserMessageIn(messages', MaxChain + 1)]_vars

\* C32: a page that waits for input in a stage other than COMPLETE shows an
\* input of the stage (a button, a form or the chat input), so that the
\* user has an action other than the reset; so does the page of an edit
\* stage whose category is verified and has no missing required field.
NoDeadEnd ==
    pc = "wait" /\ conversation_stage # STAGE_COMPLETE => widgets # {}

\* The entity of the category in the merge of a snapshot with manual inputs.
Merged(extracted, manual, category) ==
    EntityOf(merge_manual_inputs(extracted, manual).ret, category)

\* The conversation is past the verification of the category.
Past(category) ==
    StageIndex(conversation_stage) > StageIndex(VerifyStage(category))

\* A step of the "looks good" button of the category (lines 649-654,
\* 722-727, 793-798).
IsConfirmation(category) ==
    /\ pc = "wait"
    /\ conversation_stage = VerifyStage(category)
    /\ conversation_stage' = StageAfterVerify(category)

\* C33: the record a submission hands to create_records_from_data is the
\* merge of the snapshot with manual_inputs; a confirmation of a category,
\* and every step between stages past the category's verification, leaves
\* the snapshot, the category's manual inputs and the category's merged
\* entity as they are, so that the entity submitted is the one confirmed.
SubmittedRecordIsConfirmed ==
    [][/\ Truthy(create_result') =>
             call_data' = merge_manual_inputs(extracted_data, manual_inputs).ret
       /\ \A category \in Categories :
             IsConfirmation(category) \/ (Past(category) /\ Past(category)') =>
                /\ extracted_data' = extracted_data
                /\ manual_inputs'[category] = manual_inputs[category]
                /\ \E before \in {Merged(extracted_data, manual_inputs, category)},
                      after \in {Merged(extracted_data', manual_inputs', category)} :
                      after = before]_vars

\* A submission of a record whose three categories hold manual inputs, after
\* a return from the final review.
SubmittedAfterGoingBack ==
    /\ Truthy(create_result)
    /\ \A category \in Categories : manual_inputs[category] # EmptyDict
    /\ Saves("opportunity") = 2

\* The messages of the log that report the result of a submission.
SubmissionsInLog ==
    {i \in 1..Len(messages) :
        messages[i].content.kind \in {"preview_mode", "success", "no_records"}}

\* C34: create_records_from_data returns only in a step from FINAL_REVIEW to
\* COMPLETE; the log, which only a reset empties, reports at most one
\* submission; and a step that leaves COMPLETE is a reset to TRANSCRIPT_INPUT.
AtMostOneSubmission ==
    /\ [](Cardinality(SubmissionsInLog) <= 1)
    /\ [][/\ Truthy(create_result') =>
                /\ conversation_stage = STAGE_FINAL_REVIEW
                /\ conversation_stage' = STAGE_COMPLETE
                /\ SubmissionsInLog = {}
          /\ conversation_stage = STAGE_COMPLETE /\ conversation_stage' # STAGE_COMPLETE =>
                /\ conversation_stage' = STAGE_TRANSCRIPT
                /\ IsReset]_vars

\* The page of COMPLETE after a live submission that created records.
CompletePageAfterLiveSubmission ==
    /\ pc = "wait"
    /\ conversation_stage = STAGE_COMPLETE
    /\ widgets = {"process_another"}
    /\ \E i \in SubmissionsInLog : messages[i].content.kind = "success"

-----------------------------------------------------------------------------
(* Properties of the chat's turns (under TurnsSpec) *)

\* The identifiers of the nine questions.
QuestionIds ==
    {QuestionId(QuestionRegistry[i].category, QuestionRegistry[i].field) :
        i \in 1..Len(QuestionRegistry)}

\* C35: questions_asked holds identifiers of the nine questions, each at most
\* once; the turn of an answer whose extraction succeeded appends one
\* identifier that was not asked, or leaves the chat for ACCOUNT_EDIT; and the
\* chat takes at most nine answers, whatever they fill.
ChatEndsWithinNineTurns ==
    /\ [](/\ \A i \in 1..Len(questions_asked) :
                /\ questions_asked[i] \in QuestionIds
                /\ \A j \in 1..Len(questions_asked) :
                      questions_asked[i] = questions_asked[j] => i = j
          /\ UserTurns <= 9
          /\ UserTurns = 9 /\ pc \in {"answer", "run"} =>
                conversation_stage = STAGE_ACCOUNT)
    /\ [][pc = "resolved" =>
             \/ /\ conversation_stage' = STAGE_ACCOUNT
                /\ questions_asked' = questions_asked
             \/ /\ conversation_stage' = STAGE_CHAT_COLLECTION
                /\ Len(questions_asked') = Len(questions_asked) + 1
                /\ SubSeq(questions_asked', 1, Len(questions_asked)) = questions_asked
                /\ ~InSeq(questions_asked'[Len(questions_asked')], questions_asked)]_vars

\* The chat left for ACCOUNT_EDIT at the ninth answer, with the nine
\* questions asked and a record without account and contact.
NinthAnswerLeavesChat ==
    /\ conversation_stage = STAGE_ACCOUNT
    /\ UserTurns = 9
    /\ Len(questions_asked) = 9
    /\ IsNone(extracted_data.account)
    /\ IsNone(extracted_data.contact)
    /\ extracted_data.opportunity.name = Empty

-----------------------------------------------------------------------------
(* Totality of merge_manual_inputs (under MergeSpec) *)

-----------------------------------------------------------------------------
(* Properties of the field collection of the Slack bot (under SlackSpec) *)

\* C37: an entry of conversation_state has missing fields and an
\* opportunity; an update that succeeded takes the fields it wrote to the
\* opportunity, and no other, from the entry's missing_fields, and the entry
\* is deleted exactly when none is left; a failed update, or no extracted
\* value, leaves the entry as it was.
EntriesTrackMissingFields ==
    /\ [](\A user_id \in Users :
             Truthy(conversation_state[user_id]) =>
                /\ conversation_state[user_id].missing_fields # <<>>
                /\ Truthy(conversation_state[user_id].opportunity_id))
    /\ [][\A user_id \in Users :
             handler[user_id].pc = "update" /\ handler'[user_id] = Idle =>
                \E entry \in {conversation_state[user_id]},
                   before \in {sf_opportunity[conversation_state[user_id].opportunity_id.num]},
                   after \in {sf_opportunity'[conversation_state[user_id].opportunity_id.num]},
                   now \in {conversation_state'[user_id]} :
                   \E remaining \in {SelectSeq(entry.missing_fields,
                                        LAMBDA f : SalesforceField[f] \notin DOMAIN after)} :
                      IF after # before
                      THEN now = IF remaining = <<>> THEN None
                                 ELSE [entry EXCEPT !.missing_fields = remaining]
                      ELSE now = entry]_vars

\* The entry of the first opportunity was deleted by an update that wrote
\* the metrics and took the champion, never written, from the missing fields.
DeletedWithChampionMissing ==
    /\ DOMAIN sf_opportunity = {1}
    /\ \A user_id \in Users :
          /\ handler[user_id] = Idle
          /\ ~Truthy(conversation_state[user_id])
    /\ SalesforceField["metrics_notes"] \in DOMAIN sf_opportunity[1]
    /\ SalesforceField["champion"] \notin DOMAIN sf_opportunity[1]

\* C38: while a user has an entry, a message of the user is never processed
\* as a transcript (it goes to the field collection), and the entry
\* disappears only when every missing field of it has been written to the
\* opportunity.
AnswersUntilCollected ==
    [][\A user_id \in Users :
          /\ handler[user_id] = Idle /\ Truthy(conversation_state[user_id])
                /\ handler'[user_id] # Idle /\ handler'[user_id].pc # "field_collection" =>
                   handler'[user_id].event # "message"
          /\ Truthy(conversation_state[user_id]) /\ ~Truthy(conversation_state'[user_id]) =>
                \A i \in 1..Len(conversation_state[user_id].missing_fields) :
                   SalesforceField[conversation_state[user_id].missing_fields[i]]
                      \in DOMAIN sf_opportunity'[conversation_state[user_id].opportunity_id.num]]_vars

\* No user has an entry, and the only opportunity has a champion but no
\* metrics: its entry disappeared before the metrics were collected.
EntryGoneBeforeMetricsCollected ==
    /\ DOMAIN sf_opportunity = {1}
    /\ \A user_id \in Users :
          /\ handler[user_id] = Idle
          /\ ~Truthy(conversation_state[user_id])
    /\ SalesforceField["champion"] \in DOMAIN sf_opportunity[1]
    /\ SalesforceField["metrics_notes"] \notin DOMAIN sf_opportunity[1]

-----------------------------------------------------------------------------
(* Properties of detect_currency_from_location (under CurrencySpec) *)

\* The text equals the key, contains it or is contained in it, letter case
\* aside.
MatchesKey(text, key) ==
    /\ Truthy(text)
    /\ \/ Contains(Upper(key), Upper(text.str))
       \/ Contains(Upper(text.str), Upper(key))

\* C39: for a country that is, letter case aside, a key of CURRENCY_MAP the
\* call returns the currency of that key, and for a country and a region that
\* match no key it returns USD.
CurrencyOfEveryKey ==
    pc = "returned" =>
       /\ \A i \in 1..Len(CURRENCY_MAP) :
             Truthy(call_data.country)
                /\ Upper(call_data.country.str) = Upper(CURRENCY_MAP[i][1]) =>
                   call_data.currency = Str(CURRENCY_MAP[i][2])
       /\ (\A i \in 1..Len(CURRENCY_MAP) :
              /\ ~MatchesKey(call_data.country, CURRENCY_MAP[i][1])
              /\ ~MatchesKey(call_data.region, CURRENCY_MAP[i][1])) =>
             call_data.currency = Str(DEFAULT_CURRENCY)

\* The call for the country "Australia" returned USD.
AustraliaInDollars ==
    /\ pc = "returned"
    /\ call_data.country = Str(<<"A", "u", "s", "t", "r", "a", "l", "i", "a">>)
    /\ call_data.currency = Str(USD)

-----------------------------------------------------------------------------
(* Properties of _parse_extraction_response (under ParseSpec) *)

\* C40: a call makes at most one fallback re-parse, and it ends with the
\* parsed entities or with the parse error (ValueError).
AtMostOneReparse ==
    /\ call_data.reparses <= 1
    /\ pc = "returned" =>
          \/ call_data.result = Raised("ValueError")
          \/ ~IsError(call_data.result)

\* The fallback re-parsed the text "{x}" for the second time.
SecondReparseOfSameText ==
    /\ pc = "call"
    /\ call_data.reparses = 2
    /\ call_data.response_text = <<"{", "x", "}">>

====
